---- MODULE Spec2Model ----
(***************************************************************************)
(* HubQuilt: a browser content-script suite for GitHub pages.              *)
(*                                                                         *)
(* Part 1 (SpecWatch): core/dom-observer.ts, observeAndProcess, over a     *)
(*   small live DOM with insertions and removals.                          *)
(* Part 2 (SpecBoot): core/feature-registry.ts, bootstrapFeatures and the  *)
(*   option resolution of getFeatureOptionsWithDefaults.                   *)
(***************************************************************************)
EXTENDS Integers, Sequences, FiniteSets, TLC

(***************************************************************************)
(* Bounds                                                                  *)
(***************************************************************************)
\* number of DOM nodes the host page owns besides document.body
NumNodes == 2
\* number of DOM mutations (appendChild / remove) the host page performs
MaxOps == 2
\* number of observeAndProcess calls
MaxWatches == 2
\* number of times the host page changes location.href (pushState, Turbo)
MaxNavs == 2
\* number of DOM mutations the document observer of the content script sees
MaxMuts == 3
\* number of cache writes of the file-downloads feature
MaxWrites == 2
\* number of steps the cache's clock advances
MaxTicks == 3
\* number of git refs whose tree the file-downloads feature may fetch
NumRefs == 2
\* number of queueRequest calls
MaxEnqueues == 5
\* number of file-list rows the file-downloads feature processes
MaxRows == 2
\* number of processBlobView calls
MaxBlobCalls == 3
\* number of Save-token / Clear-token clicks and of edits of the token input
MaxPatActions == 3
\* number of other writes made from the options page or by features
MaxEdits == 2
\* number of addDownloadInfo calls on the file rows
MaxInfoCalls == 3
\* number of apiLimit.init calls (one per activation pass)
MaxLimitInits == 4
\* number of times the user selects another symbol in the symbol pane
MaxSymbolChanges == 3
\* number of updateFeatureEnabled / updateFeatureOption calls
MaxUpdates == 2
\* number of "/"-separated pieces of a pathname after the leading "/"
MaxSegments == 4

(***************************************************************************)
(* The DOM                                                                 *)
(***************************************************************************)
Nodes == 1..NumNodes
\* document / document.body: the root of the tree and the default watch root
Body == 0
\* parent of a node that is attached nowhere
Detached == -1

\* the selectors a watch may list
Selectors == {"a", "b"}

\* Node kinds repeat with period 3: an element matching "a" only, an element
\* matching both "a" and "b", and a text node (not an Element).
IsElement(n) == n % 3 # 0
NodeClasses(n) ==
  CASE n % 3 = 1 -> {"a"}
    [] n % 3 = 2 -> {"a", "b"}
    [] OTHER -> {}

VARIABLES
  kids,      \* kids[p]: the child list of p (Body or a node), in order
  ops,       \* number of DOM mutations performed so far
  wstatus,   \* per watch: "none", "active", "threw" (the call raised), "stopped"
  wsels,     \* per watch: selectorArray
  wthrows,   \* per watch: the elements its processor throws on
  wqueue,    \* per watch: the observer's pending MutationRecords
  calls,     \* calls[w][n]: number of times the processor of w was invoked on n
  lastScan,  \* the last observeAndProcess call: what its scan found and invoked
  lastRun    \* the last run of processor calls (a scan or a callback)

watchVars == <<kids, ops, wstatus, wsels, wthrows, wqueue, calls, lastScan,
               lastRun>>

VARIABLES
  syncSettings,    \* storage.sync "featureSettings": featureId -> boolean, partial
  syncOptions,     \* storage.sync "featureOptions": featureId -> key -> value, partial
  localPat,        \* storage.local "githubPat", Null when absent
  bpc,             \* position of the activation pass (bootstrapFeatures)
  pageType,        \* the pass's detected page type
  featureSettings, \* the pass's copy of the saved settings
  featureOptions,  \* the pass's copy of the saved options
  hasPAT,          \* the pass's result of githubApi.hasToken()
  idx,             \* index in ALL_FEATURES of the feature the loop is at
  invoked,         \* the features whose init was invoked, in invocation order
  passed,          \* passed[i]: the settings handed to the init of feature i
  warned,          \* the features skipped with the missing-PAT warning
  failed,          \* the features whose init threw or rejected (logged)
  gotValues        \* the last result of getFeatureOptionValues

bootVars == <<syncSettings, syncOptions, localPat, bpc, pageType,
              featureSettings, featureOptions, hasPAT, idx, invoked, passed,
              warned, failed, gotValues>>

VARIABLES
  href,        \* location.href of the page
  navs,        \* number of URL changes the host page made so far
  muts,        \* number of document mutations so far
  mainRan,     \* main() of the content script has run
  lastUrl,     \* main's lastUrl, Null before main ran
  urlRecords,  \* the document observer has MutationRecords to deliver
  timeouts,    \* pending setTimeout callbacks: milliseconds left, oldest first
  passes,      \* number of bootstrapFeatures calls started
  scheduled    \* number of setTimeout calls made

urlVars == <<href, navs, muts, mainRan, lastUrl, urlRecords, timeouts,
             passes, scheduled>>

VARIABLES
  now,       \* Date.now(), in milliseconds
  ticks,     \* number of clock steps so far
  writes,    \* number of cache writes so far
  store,     \* storage.local under CACHE_PREFIX: kind -> <<>> or <<entry>>
  lastRead   \* the cache read that has just returned

cacheVars == <<now, ticks, writes, store, lastRead>>

VARIABLES
  requestQueue,       \* the waiting requests, oldest first (each named by its ref)
  isProcessingQueue,  \* the module's flag
  runners,            \* the processQueue calls that are inside their loop
  enqueued,           \* the requests in the order queueRequest pushed them
  started             \* the requests in the order their fn was called

queueVars == <<requestQueue, isProcessingQueue, runners, enqueued, started>>

VARIABLES
  storeMode,           \* storage.local: "up", "down" (get and set reject),
                       \* "full" (set rejects)
  dlStore,             \* the cache entries: <<kind, ref or row>> -> <<>> or <<entry>>
  rows,                \* per row: the position and outcome of its addDownloadInfo
  fnpc,                \* per ref: the position of the queued fetch function
  treeOut,             \* per ref: what the last fetchTreeData call came to
  inFlightTreeFetches, \* the refs that have a fetch promise in the map
  isRateLimited,       \* the module's flag
  rateLimitResetTime,  \* the module's reset time, 0 for null
  coolFrom,            \* time of the last 403/429 failure of a tree fetch, -1 if none
  lateStart            \* the first API request started inside a cool-down

dlVars == <<storeMode, dlStore, rows, fnpc, treeOut, inFlightTreeFetches,
            isRateLimited, rateLimitResetTime, coolFrom, lateStart>>

VARIABLES
  blobLoc,             \* the page window.location is at
  headerProcessed,     \* processedPages.has(element), for the one header element
  headerKey,           \* the element's data-font-preview-key attribute
  blobCalls,           \* the processBlobView calls so far, in call order
  attachedPreviews,    \* the preview elements that are in the document
  currentFontPreview,  \* the module's variable, NoPreview for null
  currentFont          \* the call whose font the module's variable holds, 0 for null

fontVars == <<blobLoc, headerProcessed, headerKey, blobCalls,
              attachedPreviews, currentFontPreview, currentFont>>

VARIABLES
  loaded,      \* main() of the options page has run
  patInput,    \* value of the #pat-input field
  toggles,     \* the rendered feature toggles: featureId -> [disabled, checked]
  localTheme,  \* storage.local "themePreference", Null when absent
  syncExtra,   \* storage.sync keys besides featureSettings / featureOptions
  patActions,  \* number of token actions so far
  edits        \* number of other writes so far

optionsVars == <<loaded, patInput, toggles, localTheme, syncExtra, patActions,
                 edits>>

VARIABLES
  pathname,  \* location.pathname, as the pieces between its "/"s
  detected   \* what detectPageType returned for it, "none" before the call

detectVars == <<pathname, detected>>

VARIABLES
  sinceDone,  \* milliseconds since the last request function completed (counted
              \* up to REQUEST_DELAY), -1 before the first completion
  delayLeft,  \* milliseconds left of the pending REQUEST_DELAY timeout, -1 if none
  startGaps   \* per request function started after a completion: sinceDone at
              \* its start

timedVars == <<sinceDone, delayLeft, startGaps>>

VARIABLES
  processedElements,  \* the module's WeakSet, as the set of its elements
  infoCalls,          \* the addDownloadInfo calls so far: element and position
  containers,         \* per element: the .hq-file-info containers inside it
  inserted            \* per element: the containers ever inserted into it

infoVars == <<processedElements, infoCalls, containers, inserted>>

VARIABLES
  indicators,  \* number of [data-gh-enh-rate-limit] elements in the document
  limitInits   \* the apiLimit.init calls so far: the position of each

limitVars == <<indicators, limitInits>>

VARIABLES
  observing,                \* the 50 ms callback of the pane watch has run
  shown,                    \* aria-label of the pane's h3: the symbol shown
  symbolChanges,            \* number of times the shown symbol changed
  isAddingLinks,            \* the module's flag
  currentProcessingSymbol,  \* the module's variable
  registryLinks,            \* the .ghml-symbol-link buttons in the pane: their modules
  githubLinks,              \* the .ghml-github-link buttons in the pane: their modules
  linkCalls,                \* the addLinkToSymbolPane calls awaiting their fetcher
  retryTimers,              \* number of pending 50 ms retry timeouts
  processingTimer,          \* the debounce timeout is pending
  lastSymbolText,           \* the closure's variable
  isProcessing              \* the closure's flag

linkerVars == <<observing, shown, symbolChanges, isAddingLinks,
                currentProcessingSymbol, registryLinks, githubLinks,
                linkCalls, retryTimers, processingTimer, lastSymbolText,
                isProcessing>>

VARIABLES
  updates,     \* the updateFeatureEnabled / updateFeatureOption calls so far
  storeBefore  \* the stored settings and options before the first call

updateVars == <<updates, storeBefore>>

VARIABLES
  fnOutcome,  \* per started request: "pending", or how its function settled
  promises    \* per queueRequest call: the state of the promise it returned

liveVars == <<fnOutcome, promises>>

\* the variables of the parts below the page detection
restVars ==
  <<timedVars, infoVars, limitVars, linkerVars, updateVars, liveVars>>
\* the variables the timed queue leaves alone
outsideTimed ==
  <<watchVars, bootVars, urlVars, cacheVars, dlVars, fontVars, optionsVars,
    detectVars, infoVars, limitVars, linkerVars, updateVars, liveVars>>
\* the variables the calls of addDownloadInfo leaves alone
outsideInfo ==
  <<watchVars, bootVars, urlVars, cacheVars, queueVars, dlVars, fontVars,
    optionsVars, detectVars, timedVars, limitVars, linkerVars, updateVars,
    liveVars>>
\* the variables the rate-limit indicator leaves alone
outsideLimit ==
  <<watchVars, bootVars, urlVars, cacheVars, queueVars, dlVars, fontVars,
    optionsVars, detectVars, timedVars, infoVars, linkerVars, updateVars,
    liveVars>>
\* the variables the module linker leaves alone
outsideLinker ==
  <<watchVars, bootVars, urlVars, cacheVars, queueVars, dlVars, fontVars,
    optionsVars, detectVars, timedVars, infoVars, limitVars, updateVars,
    liveVars>>
\* the variables the settings updates leaves alone
outsideUpdate ==
  <<watchVars, urlVars, cacheVars, queueVars, dlVars, fontVars,
    optionsVars, detectVars, timedVars, infoVars, limitVars, linkerVars,
    liveVars>>
\* the variables the queue with outcomes leaves alone
outsideLive ==
  <<watchVars, bootVars, urlVars, cacheVars, dlVars, fontVars, optionsVars,
    detectVars, timedVars, infoVars, limitVars, linkerVars, updateVars>>

vars == <<watchVars, bootVars, urlVars, cacheVars, queueVars, dlVars,
          fontVars, optionsVars, detectVars, restVars>>

\* the variables the watch operations leave alone
outsideWatch ==
  <<bootVars, urlVars, cacheVars, queueVars, dlVars, fontVars, optionsVars,
    detectVars,
    restVars>>
\* the variables the activation pass leaves alone
outsideBoot ==
  <<watchVars, urlVars, cacheVars, queueVars, dlVars, fontVars, optionsVars,
    detectVars,
    restVars>>
\* the variables the content script's entry point leaves alone
outsideUrl ==
  <<watchVars, bootVars, cacheVars, queueVars, dlVars, fontVars, optionsVars,
    detectVars,
    restVars>>
\* the variables the cache functions leave alone
outsideCache ==
  <<watchVars, bootVars, urlVars, queueVars, dlVars, fontVars, optionsVars,
    detectVars,
    restVars>>
\* the variables the request queue leaves alone
outsideQueue ==
  <<watchVars, bootVars, urlVars, cacheVars, dlVars, fontVars, optionsVars,
    detectVars,
    restVars>>
\* the variables the row processing of file-downloads leaves alone, besides
\* the request queue and the clock
outsideDl == <<watchVars, bootVars, urlVars, writes, store, lastRead,
               fontVars, optionsVars, detectVars,
    restVars>>
\* the variables the options page leaves alone, besides the three stores
outsideOptions == <<watchVars, urlVars, cacheVars, queueVars, dlVars,
                    fontVars, detectVars, bpc, pageType, featureSettings, featureOptions,
                    hasPAT, idx, invoked, passed, warned, failed, gotValues,
    restVars>>
\* the variables page detection leaves alone
outsideDetect == <<watchVars, bootVars, urlVars, cacheVars, queueVars, dlVars,
                   fontVars, optionsVars,
    restVars>>
\* the variables the font preview leaves alone
outsideFont ==
  <<watchVars, bootVars, urlVars, cacheVars, queueVars, dlVars, optionsVars,
    detectVars,
    restVars>>

Watches == 1..MaxWatches

Range(s) == {s[i] : i \in 1..Len(s)}

\* Element.matches(selector)
NodeMatches(n, selector) == IsElement(n) /\ selector \in NodeClasses(n)

\* selectorArray.some(selector => node.matches(selector))
MatchesSome(n, selectorArray) == \E s \in selectorArray : NodeMatches(n, s)

ParentOf(n) ==
  IF \E p \in {Body} \cup Nodes : n \in Range(kids[p])
  THEN CHOOSE p \in {Body} \cup Nodes : n \in Range(kids[p])
  ELSE Detached

RECURSIVE Descendants(_)
RECURSIVE DescendantsOfAll(_)
\* the descendants of p in document order (preorder)
Descendants(p) == DescendantsOfAll(kids[p])
DescendantsOfAll(seq) ==
  IF seq = <<>> THEN <<>>
  ELSE <<Head(seq)>> \o Descendants(Head(seq)) \o DescendantsOfAll(Tail(seq))

InDocument(n) == n \in Range(Descendants(Body))

\* root.querySelectorAll(selectorString) with selectorString the selectors
\* joined by ", ": the descendants of root matching any of them, each once,
\* in document order
QuerySelectorAll(root, selectorArray) ==
  SelectSeq(Descendants(root), LAMBDA n : MatchesSome(n, selectorArray))

(***************************************************************************)
(* observeAndProcess                                                       *)
(***************************************************************************)
\* variant: document.querySelector, the first match only
ExistingElementsFirstOnly(selectorArray) ==
  SubSeq(QuerySelectorAll(Body, selectorArray), 1,
         IF QuerySelectorAll(Body, selectorArray) = <<>> THEN 0 ELSE 1)

\* variant: elements some watch has already processed are left out
ExistingElementsUnseen(selectorArray) ==
  SelectSeq(QuerySelectorAll(Body, selectorArray),
            LAMBDA n : \A v \in 1..MaxWatches : calls[v][n] = 0)

\* document.querySelectorAll(selectorString): the initial scan's elements
ExistingElements(selectorArray) == QuerySelectorAll(Body, selectorArray)

\* variant: only the descendants of an added node are looked at
NodeTargetsChildrenOnly(node, selectorArray) ==
  IF ~IsElement(node) THEN <<>>
  ELSE QuerySelectorAll(node, selectorArray)

\* what the callback hands to the processor for one added node: the node
\* itself if it is an Element matching some selector, then its matching
\* descendants
NodeTargets(node, selectorArray) ==
  IF ~IsElement(node) THEN <<>>
  ELSE (IF MatchesSome(node, selectorArray) THEN <<node>> ELSE <<>>)
       \o QuerySelectorAll(node, selectorArray)

RECURSIVE AddedTargets(_, _)
\* mutation.addedNodes.forEach(...)
AddedTargets(addedNodes, selectorArray) ==
  IF addedNodes = <<>> THEN <<>>
  ELSE NodeTargets(Head(addedNodes), selectorArray)
       \o AddedTargets(Tail(addedNodes), selectorArray)

RECURSIVE BatchTargets(_, _)
\* mutations.forEach(...)
BatchTargets(mutations, selectorArray) ==
  IF mutations = <<>> THEN <<>>
  ELSE AddedTargets(Head(mutations).addedNodes, selectorArray)
       \o BatchTargets(Tail(mutations), selectorArray)

\* index of the first element the processor throws on, 0 if none
FirstThrow(targets, throwsOn) ==
  IF \E i \in 1..Len(targets) : targets[i] \in throwsOn
  THEN CHOOSE i \in 1..Len(targets) :
         /\ targets[i] \in throwsOn
         /\ \A j \in 1..(i - 1) : targets[j] \notin throwsOn
  ELSE 0

\* targets.forEach(processor): the elements the processor is invoked on;
\* an exception ends the loop at the element that raised it
ForEachProcessor(targets, throwsOn) ==
  IF FirstThrow(targets, throwsOn) = 0 THEN targets
  ELSE SubSeq(targets, 1, FirstThrow(targets, throwsOn))

Count(seq, n) == Cardinality({i \in 1..Len(seq) : seq[i] = n})

AddCalls(w, handled) ==
  [calls EXCEPT ![w] = [n \in Nodes |-> @[n] + Count(handled, n)]]

\* the processors a caller may pass with these selectors, each given by the
\* elements it throws on: none, or element 1 when it can be handed element 1
ProcessorChoices(selectorArray) ==
  {{}} \cup (IF MatchesSome(1, selectorArray) THEN {{1}} ELSE {})
\* the selector arrays a caller may pass (for {"b"} node 1 is a wrapper that
\* does not match)
SelectorChoices == {{"b"}, {"a", "b"}}

NoRun == [w |-> 0, kind |-> "none", threw |-> FALSE, skipped |-> {}]
NoScan == [w |-> 0, found |-> {}, invoked |-> {}, seenBefore |-> {}]

\* variant: a disconnected observer still receives records
ObservingAfterDisconnect(w) == wstatus[w] \in {"active", "stopped"}

\* the MutationObserver of watch w is registered on its root (line 51)
Observing(w) == wstatus[w] = "active"

\* the subtree of n, n included
Subtree(n) == {n} \cup Range(Descendants(n))

\* observeAndProcess(selectors, processor): scan, then observe document.body
ObserveAndProcess(w, selectorArray, throwsOn) ==
  /\ wstatus[w] = "none"
  /\ w > 1 => wstatus[w - 1] # "none"
  /\ LET targets == ExistingElements(selectorArray)
         handled == ForEachProcessor(targets, throwsOn)
         threw == FirstThrow(targets, throwsOn) # 0
     IN /\ calls' = AddCalls(w, handled)
        /\ wstatus' = [wstatus EXCEPT ![w] = IF threw THEN "threw" ELSE "active"]
        /\ lastRun' = [w |-> w, kind |-> "scan", threw |-> threw,
                       skipped |-> Range(targets) \ Range(handled)]
        /\ lastScan' =
             [w |-> w,
              found |-> {n \in Nodes : InDocument(n) /\ MatchesSome(n, selectorArray)},
              invoked |-> Range(handled),
              seenBefore |-> {n \in Nodes : \E v \in Watches : calls[v][n] > 0}]
  /\ wsels' = [wsels EXCEPT ![w] = selectorArray]
  /\ wthrows' = [wthrows EXCEPT ![w] = throwsOn]
  /\ UNCHANGED <<kids, ops, wqueue>>
  /\ UNCHANGED outsideWatch

\* the host page appends the detached node n to p (appendChild)
InsertNode(n, p) ==
  /\ ops < MaxOps
  /\ ParentOf(n) = Detached
  /\ p = Body \/ IsElement(p)
  /\ p \notin Subtree(n)
  /\ kids' = [kids EXCEPT ![p] = Append(@, n)]
  /\ ops' = ops + 1
  /\ LET inRoot == p = Body \/ InDocument(p)
     IN wqueue' = [w \in Watches |->
          IF Observing(w) /\ inRoot
          THEN Append(wqueue[w], [addedNodes |-> <<n>>])
          ELSE wqueue[w]]
  /\ UNCHANGED <<wstatus, wsels, wthrows, calls, lastScan, lastRun>>
  /\ UNCHANGED outsideWatch

\* the host page removes n from its parent
RemoveNode(n) ==
  /\ ops < MaxOps
  /\ ParentOf(n) # Detached
  /\ LET p == ParentOf(n)
         inRoot == p = Body \/ InDocument(p)
     IN /\ kids' = [kids EXCEPT ![p] = SelectSeq(@, LAMBDA m : m # n)]
        /\ wqueue' = [w \in Watches |->
             IF Observing(w) /\ inRoot
             THEN Append(wqueue[w], [addedNodes |-> <<>>])
             ELSE wqueue[w]]
  /\ ops' = ops + 1
  /\ UNCHANGED <<wstatus, wsels, wthrows, calls, lastScan, lastRun>>
  /\ UNCHANGED outsideWatch

\* the MutationObserver callback of watch w runs on its pending records
MutationCallback(w) ==
  /\ wqueue[w] # <<>>
  /\ LET targets == BatchTargets(wqueue[w], wsels[w])
         handled == ForEachProcessor(targets, wthrows[w])
     IN /\ calls' = AddCalls(w, handled)
        /\ lastRun' = [w |-> w, kind |-> "mutation",
                       threw |-> FirstThrow(targets, wthrows[w]) # 0,
                       skipped |-> Range(targets) \ Range(handled)]
  /\ wqueue' = [wqueue EXCEPT ![w] = <<>>]
  /\ UNCHANGED <<kids, ops, wstatus, wsels, wthrows, lastScan>>
  /\ UNCHANGED outsideWatch

\* the caller disconnects the returned observer: it is taken off the root and
\* its record queue is emptied
Disconnect(w) ==
  /\ wstatus[w] = "active"
  /\ wstatus' = [wstatus EXCEPT ![w] = "stopped"]
  /\ wqueue' = [wqueue EXCEPT ![w] = <<>>]
  /\ UNCHANGED <<kids, ops, wsels, wthrows, calls, lastScan, lastRun>>
  /\ UNCHANGED outsideWatch

\* activation pass number w finds the feature eligible and calls its init;
\* the init calls observeAndProcess with the feature's selectors and
\* processor and drops the observer it returns
FeatureInitInPass(w, selectorArray, throwsOn) ==
  /\ w > 1 => wsels[1] = selectorArray /\ wthrows[1] = throwsOn
  /\ ObserveAndProcess(w, selectorArray, throwsOn)

WatchIdle ==
  /\ kids = [p \in {Body} \cup Nodes |-> <<>>]
  /\ ops = 0
  /\ wstatus = [w \in Watches |-> "none"]
  /\ wsels = [w \in Watches |-> {}]
  /\ wthrows = [w \in Watches |-> {}]
  /\ wqueue = [w \in Watches |-> <<>>]
  /\ calls = [w \in Watches |-> [n \in Nodes |-> 0]]
  /\ lastScan = NoScan
  /\ lastRun = NoRun

(***************************************************************************)
(* The feature registry                                                    *)
(***************************************************************************)
PageTypes == {"repo", "code", "issue", "pull", "pull-list", "issue-list",
              "notifications", "profile", "unknown"}

\* option values are kept as their JSON text
apiLimit ==
  [id |-> "sample-api-rate-limit-indicator", pageTypes |-> PageTypes,
   isEnabledByDefault |-> FALSE, requiresPAT |-> TRUE, options |-> <<>>]
codeColorsFeature ==
  [id |-> "code-colors", pageTypes |-> {"repo", "code"},
   isEnabledByDefault |-> TRUE, requiresPAT |-> FALSE, options |-> <<>>]
collapseMarkdownFeature ==
  [id |-> "collapse-markdown", pageTypes |-> {"repo", "issue", "pull", "code"},
   isEnabledByDefault |-> TRUE, requiresPAT |-> FALSE, options |-> <<>>]
collapseInCommentFeature ==
  [id |-> "collapse-in-comment", pageTypes |-> {"issue", "pull", "repo"},
   isEnabledByDefault |-> TRUE, requiresPAT |-> FALSE,
   options |-> <<[key |-> "minLines", defaultValue |-> "10"],
                 [key |-> "initiallyCollapsed", defaultValue |-> "false"]>>]
labelColorPickerFeature ==
  [id |-> "label-color-picker", pageTypes |-> {"repo"},
   isEnabledByDefault |-> TRUE, requiresPAT |-> FALSE, options |-> <<>>]
moduleLinkerFeature ==
  [id |-> "module-linker", pageTypes |-> {"repo", "code"},
   isEnabledByDefault |-> TRUE, requiresPAT |-> FALSE, options |-> <<>>]
gifsForCommentsFeature ==
  [id |-> "gifs-for-comments", pageTypes |-> {"repo", "issue", "pull"},
   isEnabledByDefault |-> TRUE, requiresPAT |-> FALSE, options |-> <<>>]
fileIconsFeature ==
  [id |-> "file-icons", pageTypes |-> {"repo", "pull", "code"},
   isEnabledByDefault |-> TRUE, requiresPAT |-> FALSE,
   options |-> <<[key |-> "colorScheme", defaultValue |-> "colored"]>>]
fileDownloadsFeature ==
  [id |-> "file-downloads", pageTypes |-> {"repo", "code"},
   isEnabledByDefault |-> TRUE, requiresPAT |-> TRUE,
   options |-> <<[key |-> "showFileSize", defaultValue |-> "true"],
                 [key |-> "showDownloadButton", defaultValue |-> "true"]>>]
fontPreviewFeature ==
  [id |-> "font-preview", pageTypes |-> {"repo", "code"},
   isEnabledByDefault |-> TRUE, requiresPAT |-> TRUE, options |-> <<>>]

ALL_FEATURES ==
  <<apiLimit, codeColorsFeature, collapseMarkdownFeature,
    collapseInCommentFeature, labelColorPickerFeature, moduleLinkerFeature,
    gifsForCommentsFeature, fileIconsFeature, fileDownloadsFeature,
    fontPreviewFeature>>

FeatureIndexes == 1..Len(ALL_FEATURES)
FeatureIds == {ALL_FEATURES[i].id : i \in FeatureIndexes}

\* the values the options page can save for an option
OptionValues(key) ==
  CASE key = "minLines" -> {"10", "25"}
    [] key = "colorScheme" -> {"colored", "monochrome"}
    [] OTHER -> {"true", "false"}

EmptyRec == [k \in {} |-> ""]
Null == "<null>"

(***************************************************************************)
(* Bounds of the stored settings and of the pass                           *)
(***************************************************************************)
\* number of entries the user has saved in sync storage (settings + options)
MaxSaved == 1
\* number of feature inits that fail in one pass
MaxFailures == 1

OptionKeys(feature) == {feature.options[j].key : j \in 1..Len(feature.options)}
OptionPairs ==
  {<<ALL_FEATURES[i].id, k>> : i \in FeatureIndexes, k \in {"minLines",
     "initiallyCollapsed", "colorScheme", "showFileSize", "showDownloadButton"}}
DeclaredPairs ==
  {pr \in OptionPairs :
     \E i \in FeatureIndexes :
       ALL_FEATURES[i].id = pr[1] /\ pr[2] \in OptionKeys(ALL_FEATURES[i])}

SettingsChoices(k) ==
  UNION {[D -> BOOLEAN] : D \in {E \in SUBSET FeatureIds : Cardinality(E) <= k}}

OptionsFrom(D, v) ==
  [fid \in {pr[1] : pr \in D} |->
     [key \in {pr[2] : pr \in {q \in D : q[1] = fid}} |-> v[<<fid, key>>]]]

OptionsChoices(k) ==
  UNION {{OptionsFrom(D, v) :
            v \in {u \in [D -> UNION {OptionValues(pr[2]) : pr \in D}] :
                     \A pr \in D : u[pr] \in OptionValues(pr[2])}} :
         D \in {E \in SUBSET DeclaredPairs : Cardinality(E) <= k}}

SavedCount(settings, options) ==
  Cardinality(DOMAIN settings)
  + Cardinality({pr \in DeclaredPairs :
                   pr[1] \in DOMAIN options /\ pr[2] \in DOMAIN options[pr[1]]})

(***************************************************************************)
(* feature-registry.ts                                                     *)
(***************************************************************************)
\* githubApi.hasToken(): !!pat
HasToken == localPat # Null /\ localPat # ""

\* variant: featureSettings[feature.id] || feature.isEnabledByDefault
FeatureEnabledOr(feature, settings) ==
  (feature.id \in DOMAIN settings /\ settings[feature.id])
  \/ feature.isEnabledByDefault

\* featureSettings[feature.id] ?? feature.isEnabledByDefault
FeatureEnabled(feature, settings) ==
  IF feature.id \in DOMAIN settings THEN settings[feature.id]
  ELSE feature.isEnabledByDefault

\* for each declared key, the index of the option that sets defaults[key]
\* (the last one with that key)
OptionDefaults(feature) ==
  [k \in OptionKeys(feature) |->
     (CHOOSE j \in 1..Len(feature.options) : feature.options[j].key = k
        /\ \A h \in (j + 1)..Len(feature.options) : feature.options[h].key # k)
     ]

\* variant: { ...(savedOptions[feature.id] ?? {}), ...defaults }
GetFeatureOptionsDefaultsLast(feature, savedOptions) ==
  LET defaults == [k \in OptionKeys(feature) |->
                     feature.options[OptionDefaults(feature)[k]].defaultValue]
      saved == IF feature.id \in DOMAIN savedOptions
               THEN savedOptions[feature.id] ELSE EmptyRec
  IN [k \in DOMAIN defaults \cup DOMAIN saved |->
        IF k \in DOMAIN defaults THEN defaults[k] ELSE saved[k]]

\* { ...defaults, ...(savedOptions[feature.id] ?? {}) }
GetFeatureOptionsWithDefaults(feature, savedOptions) ==
  LET defaults == [k \in OptionKeys(feature) |->
                     feature.options[OptionDefaults(feature)[k]].defaultValue]
      saved == IF feature.id \in DOMAIN savedOptions
               THEN savedOptions[feature.id] ELSE EmptyRec
  IN [k \in DOMAIN defaults \cup DOMAIN saved |->
        IF k \in DOMAIN saved THEN saved[k] ELSE defaults[k]]

\* variant: no try/catch around init, the failure rejects the pass
AfterInitFailureUncaught == "rejected"

\* the catch block of the loop: the error is logged and the loop goes on
AfterInitFailure == "loop"

BootInit ==
  /\ syncSettings \in SettingsChoices(MaxSaved)
  /\ syncOptions \in OptionsChoices(MaxSaved)
  /\ SavedCount(syncSettings, syncOptions) <= MaxSaved
  /\ localPat \in {Null, "ghp_token"}
  /\ bpc = "idle"
  /\ pageType = "unknown"
  /\ featureSettings = EmptyRec
  /\ featureOptions = EmptyRec
  /\ hasPAT = FALSE
  /\ idx = 1
  /\ invoked = <<>>
  /\ passed = [i \in {} |-> EmptyRec]
  /\ warned = {}
  /\ failed = {}
  /\ gotValues = [featureId |-> "", values |-> EmptyRec]

BootIdle ==
  /\ syncSettings = EmptyRec
  /\ syncOptions = EmptyRec
  /\ localPat = Null
  /\ bpc = "idle"
  /\ pageType = "unknown"
  /\ featureSettings = EmptyRec
  /\ featureOptions = EmptyRec
  /\ hasPAT = FALSE
  /\ idx = 1
  /\ invoked = <<>>
  /\ passed = [i \in {} |-> EmptyRec]
  /\ warned = {}
  /\ failed = {}
  /\ gotValues = [featureId |-> "", values |-> EmptyRec]

storeVars == <<syncSettings, syncOptions, localPat>>

\* bootstrapFeatures is called: detectPageType(document, location)
BootStart(pt) ==
  /\ bpc = "idle"
  /\ pageType' = pt
  /\ bpc' = "getSettings"
  /\ UNCHANGED <<storeVars, featureSettings, featureOptions, hasPAT, idx,
                 invoked, passed, warned, failed, gotValues>>
  /\ UNCHANGED outsideBoot

\* await getFeatureSettings()
BootGetSettings ==
  /\ bpc = "getSettings"
  /\ featureSettings' = syncSettings
  /\ bpc' = "getOptions"
  /\ UNCHANGED <<storeVars, pageType, featureOptions, hasPAT, idx, invoked,
                 passed, warned, failed, gotValues>>
  /\ UNCHANGED outsideBoot

\* await getFeatureOptions()
BootGetOptions ==
  /\ bpc = "getOptions"
  /\ featureOptions' = syncOptions
  /\ bpc' = "hasToken"
  /\ UNCHANGED <<storeVars, pageType, featureSettings, hasPAT, idx, invoked,
                 passed, warned, failed, gotValues>>
  /\ UNCHANGED outsideBoot

\* await githubApi.hasToken()
BootHasToken ==
  /\ bpc = "hasToken"
  /\ hasPAT' = HasToken
  /\ bpc' = "loop"
  /\ idx' = 1
  /\ UNCHANGED <<storeVars, pageType, featureSettings, featureOptions, invoked,
                 passed, warned, failed, gotValues>>
  /\ UNCHANGED outsideBoot

\* one of the three storage reads rejects: the pass rejects
BootStorageRejects ==
  /\ bpc \in {"getSettings", "getOptions", "hasToken"}
  /\ bpc' = "rejected"
  /\ UNCHANGED <<storeVars, pageType, featureSettings, featureOptions, hasPAT,
                 idx, invoked, passed, warned, failed, gotValues>>
  /\ UNCHANGED outsideBoot

AtFeature == bpc = "loop" /\ idx <= Len(ALL_FEATURES)

\* the two plain `continue`s: wrong page type, or disabled
BootSkip ==
  /\ AtFeature
  /\ \/ pageType \notin ALL_FEATURES[idx].pageTypes
     \/ ~FeatureEnabled(ALL_FEATURES[idx], featureSettings)
  /\ idx' = idx + 1
  /\ UNCHANGED <<storeVars, bpc, pageType, featureSettings, featureOptions,
                 hasPAT, invoked, passed, warned, failed, gotValues>>
  /\ UNCHANGED outsideBoot

\* the feature requires a PAT and none is configured: warn and continue
BootSkipNoPat ==
  /\ AtFeature
  /\ pageType \in ALL_FEATURES[idx].pageTypes
  /\ FeatureEnabled(ALL_FEATURES[idx], featureSettings)
  /\ ALL_FEATURES[idx].requiresPAT /\ ~hasPAT
  /\ warned' = warned \cup {idx}
  /\ idx' = idx + 1
  /\ UNCHANGED <<storeVars, bpc, pageType, featureSettings, featureOptions,
                 hasPAT, invoked, passed, failed, gotValues>>
  /\ UNCHANGED outsideBoot

Passes(feature) ==
  /\ pageType \in feature.pageTypes
  /\ FeatureEnabled(feature, featureSettings)
  /\ ~(feature.requiresPAT /\ ~hasPAT)

\* feature.init(ctx, settings) is called and throws before returning
BootInitThrows ==
  /\ AtFeature
  /\ Passes(ALL_FEATURES[idx])
  /\ Cardinality(failed) < MaxFailures
  /\ invoked' = Append(invoked, idx)
  /\ passed' = [i \in DOMAIN passed \cup {idx} |->
                  IF i = idx
                  THEN GetFeatureOptionsWithDefaults(ALL_FEATURES[idx], featureOptions)
                  ELSE passed[i]]
  /\ failed' = failed \cup {idx}
  /\ bpc' = AfterInitFailure
  /\ idx' = idx + 1
  /\ UNCHANGED <<storeVars, pageType, featureSettings, featureOptions, hasPAT,
                 warned, gotValues>>
  /\ UNCHANGED outsideBoot

\* feature.init(ctx, settings) is called and returns; the loop awaits it
BootInitCalled ==
  /\ AtFeature
  /\ Passes(ALL_FEATURES[idx])
  /\ invoked' = Append(invoked, idx)
  /\ passed' = [i \in DOMAIN passed \cup {idx} |->
                  IF i = idx
                  THEN GetFeatureOptionsWithDefaults(ALL_FEATURES[idx], featureOptions)
                  ELSE passed[i]]
  /\ bpc' = "awaitInit"
  /\ UNCHANGED <<storeVars, pageType, featureSettings, featureOptions, hasPAT,
                 idx, warned, failed, gotValues>>
  /\ UNCHANGED outsideBoot

\* the awaited init fulfils
BootInitResolves ==
  /\ bpc = "awaitInit"
  /\ bpc' = "loop"
  /\ idx' = idx + 1
  /\ UNCHANGED <<storeVars, pageType, featureSettings, featureOptions, hasPAT,
                 invoked, passed, warned, failed, gotValues>>
  /\ UNCHANGED outsideBoot

\* the awaited init rejects
BootInitRejects ==
  /\ bpc = "awaitInit"
  /\ Cardinality(failed) < MaxFailures
  /\ failed' = failed \cup {idx}
  /\ bpc' = AfterInitFailure
  /\ idx' = idx + 1
  /\ UNCHANGED <<storeVars, pageType, featureSettings, featureOptions, hasPAT,
                 invoked, passed, warned, gotValues>>
  /\ UNCHANGED outsideBoot

\* the loop is over: the promise of bootstrapFeatures fulfils
BootFinish ==
  /\ bpc = "loop"
  /\ idx > Len(ALL_FEATURES)
  /\ bpc' = "done"
  /\ UNCHANGED <<storeVars, pageType, featureSettings, featureOptions, hasPAT,
                 idx, invoked, passed, warned, failed, gotValues>>
  /\ UNCHANGED outsideBoot

\* getFeatureOptionValues(featureId), called by the options page.  It only
\* reads the store, which the pass never writes, so it commutes with every
\* step of the pass; it is interleaved after the pass only.
GetFeatureOptionValues(featureId) ==
  /\ bpc \in {"done", "rejected"}
  /\ gotValues' =
       [featureId |-> featureId,
        values |->
          IF \E i \in FeatureIndexes : ALL_FEATURES[i].id = featureId
          THEN GetFeatureOptionsWithDefaults(
                 ALL_FEATURES[CHOOSE i \in FeatureIndexes :
                                ALL_FEATURES[i].id = featureId],
                 syncOptions)
          ELSE EmptyRec]
  /\ UNCHANGED <<storeVars, bpc, pageType, featureSettings, featureOptions,
                 hasPAT, idx, invoked, passed, warned, failed>>
  /\ UNCHANGED outsideBoot

(***************************************************************************)
(* The content script's entry point (entrypoints/content/index.ts)         *)
(***************************************************************************)
Urls == {"/o/r", "/o/r/issues"}

\* the delay of the re-activation after a URL change, in milliseconds
UrlChangeDelay == 150
\* the amounts of time the model lets pass in one step
Durations == {UrlChangeDelay \div 2, UrlChangeDelay}

\* location.href !== lastUrl
UrlDiffers(h, l) == h # l

\* lastUrl = location.href
SeenUrlStale(h, l) == l
SeenUrl(h, l) == h

Max(a, b) == IF a >= b THEN a ELSE b

UrlInit ==
  /\ href \in Urls
  /\ navs = 0
  /\ muts = 0
  /\ mainRan = FALSE
  /\ lastUrl = Null
  /\ urlRecords = FALSE
  /\ timeouts = <<>>
  /\ passes = 0
  /\ scheduled = 0

\* the content script is not loaded
UrlIdle ==
  /\ href = "/o/r"
  /\ navs = 0
  /\ muts = 0
  /\ mainRan = FALSE
  /\ lastUrl = Null
  /\ urlRecords = FALSE
  /\ timeouts = <<>>
  /\ passes = 0
  /\ scheduled = 0

\* main(): lastUrl = location.href; initOnce() starts the first pass;
\* watchUrlChanges() puts the observer on the document.
Main ==
  /\ ~mainRan
  /\ mainRan' = TRUE
  /\ lastUrl' = href
  /\ passes' = passes + 1
  /\ UNCHANGED <<href, navs, muts, urlRecords, timeouts, scheduled>>
  /\ UNCHANGED outsideUrl

\* the host page changes location.href (history.pushState, Turbo navigation)
Navigate(u) ==
  /\ navs < MaxNavs
  /\ u # href
  /\ href' = u
  /\ navs' = navs + 1
  /\ UNCHANGED <<muts, mainRan, lastUrl, urlRecords, timeouts, passes,
                 scheduled>>
  /\ UNCHANGED outsideUrl

\* a node is added to or removed from the document; an observer that is
\* installed gets a MutationRecord
DocumentMutation ==
  /\ muts < MaxMuts
  /\ muts' = muts + 1
  /\ urlRecords' = mainRan
  /\ UNCHANGED <<href, navs, mainRan, lastUrl, timeouts, passes, scheduled>>
  /\ UNCHANGED outsideUrl

\* the MutationObserver callback of watchUrlChanges
UrlObserverCallback ==
  /\ urlRecords
  /\ urlRecords' = FALSE
  /\ IF UrlDiffers(href, lastUrl)
       THEN /\ lastUrl' = SeenUrl(href, lastUrl)
            /\ timeouts' = Append(timeouts, UrlChangeDelay)
            /\ scheduled' = scheduled + 1
       ELSE UNCHANGED <<lastUrl, timeouts, scheduled>>
  /\ UNCHANGED <<href, navs, muts, mainRan, passes>>
  /\ UNCHANGED outsideUrl

\* time passes
Elapse(d) ==
  /\ timeouts # <<>>
  /\ timeouts[Len(timeouts)] > 0
  /\ timeouts' = [i \in 1..Len(timeouts) |-> Max(0, timeouts[i] - d)]
  /\ UNCHANGED <<href, navs, muts, mainRan, lastUrl, urlRecords, passes,
                 scheduled>>
  /\ UNCHANGED outsideUrl

\* a timeout whose delay has passed runs: bootstrapFeatures(document,
\* window.location) starts
TimeoutFires ==
  /\ timeouts # <<>>
  /\ Head(timeouts) = 0
  /\ timeouts' = Tail(timeouts)
  /\ passes' = passes + 1
  /\ UNCHANGED <<href, navs, muts, mainRan, lastUrl, urlRecords, scheduled>>
  /\ UNCHANGED outsideUrl

(***************************************************************************)
(* The file-downloads cache (the file-downloads part of font-preview.ts)   *)
(***************************************************************************)
CACHE_DURATION == 60 * 60 * 1000
\* the clock advances by half a CACHE_DURATION at a time
ClockStep == CACHE_DURATION \div 2

\* the three caches: tree data, file metadata, folder sizes (one key each)
CacheKinds == {"tree", "file", "folder"}
\* the payloads the API can deliver
Payloads == {"v1", "v2"}
\* datetime attributes of a row's relative-time element; Null when the row
\* has none
CommitTimes == {"2024-01-01T00:00:00Z", "2024-02-01T00:00:00Z", "yesterday"}
NaN == -1
\* new Date(s), as milliseconds-since-epoch rank; NaN for an unparsable string
ParseDate(s) ==
  CASE s = "2024-01-01T00:00:00Z" -> 1
    [] s = "2024-02-01T00:00:00Z" -> 2
    [] OTHER -> NaN
\* new Date(a) > new Date(b): every comparison with NaN is false
DateGreater(a, b) ==
  /\ ParseDate(a) # NaN
  /\ ParseDate(b) # NaN
  /\ ParseDate(a) > ParseDate(b)

\* Date.now() - data.timestamp < CACHE_DURATION
WithinDuration(e, t) == t - e.timestamp < CACHE_DURATION

\* what setCachedTree / setCachedFileMetadata / setCachedFolderSize store
CacheEntry(kind, payload, lastCommitTime, t) ==
  [data |-> payload,
   timestamp |-> t,
   lastCommitTime |-> IF kind = "tree" THEN Null ELSE lastCommitTime,
   sha |-> IF kind = "file" THEN "sha" ELSE Null]

\* a file-metadata entry of the old cache format, without sha
OldFormatEntry ==
  [data |-> "v1", timestamp |-> 0, lastCommitTime |-> Null, sha |-> Null]

\* getCachedTree on the stored slot
GetCachedTree(slot, t) ==
  IF slot # <<>> /\ WithinDuration(slot[1], t) THEN slot[1].data ELSE Null

\* the commit-time validation shared by getCachedFileMetadata and
\* getCachedFolderSize
ValidatedFirstWriteWins(e, t, lastCommitTime) ==
  IF lastCommitTime # Null /\ e.lastCommitTime # Null
    THEN IF ParseDate(lastCommitTime) # ParseDate(e.lastCommitTime)
           THEN Null ELSE e.data
    ELSE IF ~WithinDuration(e, t) THEN Null ELSE e.data
Validated(e, t, lastCommitTime) ==
  IF lastCommitTime # Null /\ e.lastCommitTime # Null
    THEN IF DateGreater(lastCommitTime, e.lastCommitTime)
           THEN Null ELSE e.data
    ELSE IF ~WithinDuration(e, t) THEN Null ELSE e.data

\* getCachedFileMetadata on the stored slot
GetCachedFileMetadata(slot, t, lastCommitTime) ==
  IF slot = <<>> THEN Null
  ELSE IF slot[1].sha = Null THEN Null
  ELSE Validated(slot[1], t, lastCommitTime)

\* getCachedFolderSize on the stored slot
GetCachedFolderSize(slot, t, lastCommitTime) ==
  IF slot = <<>> THEN Null
  ELSE Validated(slot[1], t, lastCommitTime)

CacheGet(kind, slot, t, lastCommitTime) ==
  CASE kind = "tree" -> GetCachedTree(slot, t)
    [] kind = "file" -> GetCachedFileMetadata(slot, t, lastCommitTime)
    [] kind = "folder" -> GetCachedFolderSize(slot, t, lastCommitTime)

\* chrome.storage.local.get only: what a cache read leaves in the store
StoreAfterReadSweeping(kind, st, result) ==
  IF result = Null THEN [st EXCEPT ![kind] = <<>>] ELSE st
StoreAfterRead(kind, st, result) == st

NoRead == [kind |-> "none", lastCommitTime |-> Null, result |-> Null]

CacheInit ==
  /\ now = 0
  /\ ticks = 0
  /\ writes = 0
  /\ store \in {[k \in CacheKinds |-> <<>>],
                [k \in CacheKinds |-> IF k = "file" THEN <<OldFormatEntry>>
                                      ELSE <<>>]}
  /\ lastRead = NoRead

\* the feature has not touched its cache
CacheIdle ==
  /\ now = 0
  /\ ticks = 0
  /\ writes = 0
  /\ store = [k \in CacheKinds |-> <<>>]
  /\ lastRead = NoRead

\* setCachedTree, setCachedFileMetadata, setCachedFolderSize
CacheSet(kind, payload, lastCommitTime) ==
  /\ writes < MaxWrites
  /\ kind = "tree" => lastCommitTime = Null
  /\ writes' = writes + 1
  /\ store' = [store EXCEPT
                 ![kind] = <<CacheEntry(kind, payload, lastCommitTime, now)>>]
  /\ lastRead' = NoRead
  /\ UNCHANGED <<now, ticks>>
  /\ UNCHANGED outsideCache

\* getCachedTree, getCachedFileMetadata, getCachedFolderSize
CacheRead(kind, lastCommitTime) ==
  /\ kind = "tree" => lastCommitTime = Null
  /\ LET result == CacheGet(kind, store[kind], now, lastCommitTime) IN
       /\ lastRead' = [kind |-> kind, lastCommitTime |-> lastCommitTime,
                       result |-> result]
       /\ store' = StoreAfterRead(kind, store, result)
  /\ UNCHANGED <<now, ticks, writes>>
  /\ UNCHANGED outsideCache

\* time passes
ClockAdvances ==
  /\ ticks < MaxTicks
  /\ ticks' = ticks + 1
  /\ now' = now + ClockStep
  /\ lastRead' = NoRead
  /\ UNCHANGED <<writes, store>>
  /\ UNCHANGED outsideCache

(***************************************************************************)
(* The file-downloads request queue (queueRequest, processQueue)           *)
(***************************************************************************)
Refs == 1..NumRefs

\* a processQueue call inside its loop: awaiting request.fn() of req, or
\* awaiting the REQUEST_DELAY timeout (req is then the request just done)
Runner(pc, req) == [pc |-> pc, req |-> req]

\* the requests whose fn is executing
Executing == {runners[i].req : i \in {j \in 1..Len(runners) : runners[j].pc = "fn"}}

RemoveAt(seq, i) == SubSeq(seq, 1, i - 1) \o SubSeq(seq, i + 1, Len(seq))

\* processQueue: if (isProcessingQueue || requestQueue.length === 0) return
ProcessQueueReturnsUnguarded(flag, queue) == queue = <<>>
ProcessQueueReturns(flag, queue) == flag \/ queue = <<>>

QueueInit ==
  /\ requestQueue = <<>>
  /\ isProcessingQueue = FALSE
  /\ runners = <<>>
  /\ enqueued = <<>>
  /\ started = <<>>

QueueIdle == QueueInit

\* queueRequest(fn) for the request k: push, then processQueue() up to its
\* first await
QEnqueue(k) ==
  /\ Len(enqueued) < MaxEnqueues
  /\ enqueued' = Append(enqueued, k)
  /\ LET pushed == Append(requestQueue, k) IN
       IF ProcessQueueReturns(isProcessingQueue, pushed)
         THEN /\ requestQueue' = pushed
              /\ UNCHANGED <<isProcessingQueue, runners, started>>
         ELSE /\ isProcessingQueue' = TRUE
              /\ requestQueue' = Tail(pushed)
              /\ runners' = Append(runners, Runner("fn", Head(pushed)))
              /\ started' = Append(started, Head(pushed))

\* request.fn() of runner i settles; request.resolve / request.reject; then
\* the REQUEST_DELAY wait if a request is waiting, else the loop ends
QSettle(i) ==
  /\ i \in 1..Len(runners)
  /\ runners[i].pc = "fn"
  /\ IF requestQueue # <<>>
       THEN /\ runners' = [runners EXCEPT ![i].pc = "delay"]
            /\ UNCHANGED isProcessingQueue
       ELSE /\ runners' = RemoveAt(runners, i)
            /\ isProcessingQueue' = FALSE
  /\ UNCHANGED <<requestQueue, enqueued, started>>

\* the REQUEST_DELAY timeout of runner i fires: the next turn of the loop
QDelayEnds(i) ==
  /\ i \in 1..Len(runners)
  /\ runners[i].pc = "delay"
  /\ IF requestQueue # <<>>
       THEN /\ requestQueue' = Tail(requestQueue)
            /\ runners' = [runners EXCEPT ![i] = Runner("fn", Head(requestQueue))]
            /\ started' = Append(started, Head(requestQueue))
            /\ UNCHANGED isProcessingQueue
       ELSE /\ runners' = RemoveAt(runners, i)
            /\ isProcessingQueue' = FALSE
            /\ UNCHANGED <<requestQueue, started>>
  /\ UNCHANGED enqueued

\* fetchTreeData queues the fetch of a ref that is not in inFlightTreeFetches
QueueRequest(k) ==
  /\ k \notin Range(requestQueue) \cup Executing
  /\ QEnqueue(k)
  /\ UNCHANGED outsideQueue

FnSettles(i) ==
  /\ QSettle(i)
  /\ UNCHANGED outsideQueue

DelayEnds(i) ==
  /\ QDelayEnds(i)
  /\ UNCHANGED outsideQueue

(***************************************************************************)
(* file-downloads: addDownloadInfo, getFileMetadata, fetchTreeData          *)
(***************************************************************************)
RATE_LIMIT_RESET_DURATION == 60 * 60 * 1000

Rows == 1..MaxRows
RowKinds == {"file", "folder"}
\* HTTP outcomes of a GitHub API request
Statuses == {"ok", "403", "429", "500"}
\* error.message.includes('403') || error.message.includes('429')
IsRateLimitError(status) == status \in {"403", "429"}

\* payloads: the tree of a ref, the metadata of a file, the size of a folder
TreeOf(k) == "v1"
MetadataOf(r) == "v1"
SizeOf(r) == "v2"

DlKeys ==
  {<<"tree", k>> : k \in Refs} \cup {<<kind, r>> : kind \in RowKinds, r \in Rows}

NewRow == [pc |-> "new", kind |-> "file", ref |-> 1, out |-> "none",
           meta |-> "none"]

\* checkRateLimitExpired(): the flag after the call
LimitedAfterCheck ==
  /\ isRateLimited
  /\ ~(rateLimitResetTime # 0 /\ now >= rateLimitResetTime)
ResetTimeAfterCheck ==
  IF isRateLimited /\ rateLimitResetTime # 0 /\ now >= rateLimitResetTime
    THEN 0 ELSE rateLimitResetTime

\* an API request starts now: remember the first one inside a cool-down
InCoolDown == coolFrom >= 0 /\ now - coolFrom < RATE_LIMIT_RESET_DURATION
ApiStart(by) == IF InCoolDown /\ lateStart = "none" THEN by ELSE lateStart

\* the row's cache read, on the row's own key
RowCacheGet(r) ==
  CacheGet(rows[r].kind, dlStore[<<rows[r].kind, r>>], now, Null)

DlInit ==
  /\ storeMode \in {"up", "down", "full"}
  /\ dlStore = [key \in DlKeys |-> <<>>]
  /\ rows = [r \in Rows |-> NewRow]
  /\ fnpc = [k \in Refs |-> "none"]
  /\ treeOut = [k \in Refs |-> "none"]
  /\ inFlightTreeFetches = {}
  /\ isRateLimited = FALSE
  /\ rateLimitResetTime = 0
  /\ coolFrom = -1
  /\ lateStart = "none"

\* the feature is not active
DlIdle ==
  /\ storeMode = "up"
  /\ dlStore = [key \in DlKeys |-> <<>>]
  /\ rows = [r \in Rows |-> NewRow]
  /\ fnpc = [k \in Refs |-> "none"]
  /\ treeOut = [k \in Refs |-> "none"]
  /\ inFlightTreeFetches = {}
  /\ isRateLimited = FALSE
  /\ rateLimitResetTime = 0
  /\ coolFrom = -1
  /\ lateStart = "none"

\* variant: the in-flight map is never consulted
InFlightNever(k) == FALSE
\* inFlightTreeFetches.get(cacheKey) is a promise
InFlight(k) == k \in inFlightTreeFetches

\* the queue has just called the fn of a request: its first getJson starts
FnStarts(by) ==
  IF started' # started
    THEN /\ fnpc' = [fnpc EXCEPT ![started'[Len(started')]] = "commit"]
         /\ lateStart' = ApiStart(by)
    ELSE UNCHANGED <<fnpc, lateStart>>

\* addDownloadInfo(element) up to its first await; the row is a file or a
\* folder of ref k and has no relative-time element
AddDownloadInfo(r, kind, k) ==
  /\ rows[r].pc = "new"
  /\ isRateLimited' = LimitedAfterCheck
  /\ rateLimitResetTime' = ResetTimeAfterCheck
  /\ rows' = [rows EXCEPT ![r].kind = kind, ![r].ref = k,
                ![r].pc = IF LimitedAfterCheck THEN "limitedRead" ELSE "read"]
  /\ UNCHANGED <<storeMode, dlStore, fnpc, treeOut, inFlightTreeFetches,
                 coolFrom, lateStart>>
  /\ UNCHANGED <<queueVars, now, ticks>>
  /\ UNCHANGED outsideDl

\* the cache read of the isRateLimited branch returns or rejects
LimitedRead(r) ==
  /\ rows[r].pc = "limitedRead"
  /\ rows' = [rows EXCEPT
       ![r].pc = IF storeMode # "down" /\ RowCacheGet(r) # Null
                   THEN "read" ELSE "done",
       ![r].out = IF storeMode = "down" THEN "rejected"
                  ELSE IF RowCacheGet(r) = Null THEN "skipped"
                  ELSE "none"]
  /\ UNCHANGED <<storeMode, dlStore, fnpc, treeOut, inFlightTreeFetches,
                 isRateLimited, rateLimitResetTime, coolFrom, lateStart>>
  /\ UNCHANGED <<queueVars, now, ticks>>
  /\ UNCHANGED outsideDl

\* inside the try: getCachedFileMetadata (in getFileMetadata) or
\* getCachedFolderSize returns or rejects; on a miss a file row goes on
\* into fetchTreeData and a folder row into calculateFolderSize
CachedRead(r) ==
  /\ rows[r].pc = "read"
  /\ IF storeMode = "down"
       THEN /\ rows' = [rows EXCEPT ![r].pc = "done", ![r].out = "error",
                          ![r].meta = IF rows[r].kind = "file"
                                        THEN "rejected" ELSE "none"]
            /\ UNCHANGED <<isRateLimited, rateLimitResetTime, lateStart>>
       ELSE IF RowCacheGet(r) # Null
       THEN /\ rows' = [rows EXCEPT ![r].pc = "done", ![r].out = "shown",
                          ![r].meta = IF rows[r].kind = "file"
                                        THEN RowCacheGet(r) ELSE "none"]
            /\ UNCHANGED <<isRateLimited, rateLimitResetTime, lateStart>>
       ELSE IF rows[r].kind = "file"
       THEN /\ isRateLimited' = LimitedAfterCheck
            /\ rateLimitResetTime' = ResetTimeAfterCheck
            /\ rows' = IF LimitedAfterCheck
                         THEN [rows EXCEPT ![r].pc = "done",
                                 ![r].out = "skipped", ![r].meta = Null]
                         ELSE [rows EXCEPT ![r].pc = "treeRead"]
            /\ UNCHANGED lateStart
       ELSE /\ rows' = [rows EXCEPT ![r].pc = "folderCommit"]
            /\ lateStart' = ApiStart("folder")
            /\ UNCHANGED <<isRateLimited, rateLimitResetTime>>
  /\ UNCHANGED <<storeMode, dlStore, fnpc, treeOut, inFlightTreeFetches,
                 coolFrom>>
  /\ UNCHANGED <<queueVars, now, ticks>>
  /\ UNCHANGED outsideDl

\* fetchTreeData: getCachedTree returns or rejects; then the in-flight map,
\* then queueRequest
TreeRead(r) ==
  /\ rows[r].pc = "treeRead"
  /\ LET k == rows[r].ref
         cached == GetCachedTree(dlStore[<<"tree", k>>], now) IN
     IF storeMode = "down"
       THEN /\ rows' = [rows EXCEPT ![r].pc = "done", ![r].out = "error",
                          ![r].meta = "rejected"]
            /\ treeOut' = [treeOut EXCEPT ![k] = "rejected"]
            /\ UNCHANGED <<queueVars, fnpc, inFlightTreeFetches, lateStart>>
       ELSE IF cached # Null
       THEN /\ rows' = [rows EXCEPT ![r].pc = "write"]
            /\ treeOut' = [treeOut EXCEPT ![k] = cached]
            /\ UNCHANGED <<queueVars, fnpc, inFlightTreeFetches, lateStart>>
       ELSE IF InFlight(k)
       THEN /\ rows' = [rows EXCEPT ![r].pc = "awaitTree"]
            /\ UNCHANGED <<queueVars, fnpc, treeOut, inFlightTreeFetches,
                           lateStart>>
       ELSE /\ QEnqueue(k)
            /\ FnStarts("queued")
            /\ inFlightTreeFetches' = inFlightTreeFetches \cup {k}
            /\ rows' = [rows EXCEPT ![r].pc = "awaitTree"]
            /\ treeOut' = [treeOut EXCEPT ![k] = "pending"]
  /\ UNCHANGED <<storeMode, dlStore, isRateLimited, rateLimitResetTime,
                 coolFrom>>
  /\ UNCHANGED <<now, ticks>>
  /\ UNCHANGED outsideDl

\* the fetch function of ref k returns result: finally, the promise
\* resolves for every row that awaits it, and processQueue goes on
FnReturns(k, result) ==
  /\ inFlightTreeFetches' = inFlightTreeFetches \ {k}
  /\ treeOut' = [treeOut EXCEPT ![k] = result]
  /\ rows' = [r \in Rows |->
       IF rows[r].pc = "awaitTree" /\ rows[r].ref = k
         THEN IF result # Null
                THEN [rows[r] EXCEPT !.pc = "write"]
                ELSE [rows[r] EXCEPT !.pc = "done", !.out = "skipped",
                                     !.meta = Null]
         ELSE rows[r]]
  /\ \E i \in 1..Len(runners) : runners[i].req = k /\ QSettle(i)

\* the catch of the fetch function
FnCatches(k, status) ==
  /\ fnpc' = [fnpc EXCEPT ![k] = "none"]
  /\ IF IsRateLimitError(status)
       THEN /\ isRateLimited' = TRUE
            /\ rateLimitResetTime' =
                 IF isRateLimited THEN rateLimitResetTime
                 ELSE now + RATE_LIMIT_RESET_DURATION
            /\ coolFrom' = now
       ELSE UNCHANGED <<isRateLimited, rateLimitResetTime, coolFrom>>
  /\ FnReturns(k, Null)

\* the response to /repos/o/r/commits/ref arrives
CommitResponds(k, status) ==
  /\ fnpc[k] = "commit"
  /\ IF status = "ok"
       THEN /\ fnpc' = [fnpc EXCEPT ![k] = "tree"]
            /\ lateStart' = ApiStart("fetch")
            /\ UNCHANGED <<queueVars, rows, treeOut, inFlightTreeFetches,
                           isRateLimited, rateLimitResetTime, coolFrom>>
       ELSE /\ FnCatches(k, status)
            /\ UNCHANGED lateStart
  /\ UNCHANGED <<storeMode, dlStore>>
  /\ UNCHANGED <<now, ticks>>
  /\ UNCHANGED outsideDl

\* the response to /repos/o/r/git/trees/sha arrives
TreeResponds(k, status) ==
  /\ fnpc[k] = "tree"
  /\ IF status = "ok"
       THEN /\ fnpc' = [fnpc EXCEPT ![k] = "cacheTree"]
            /\ UNCHANGED <<queueVars, rows, treeOut, inFlightTreeFetches,
                           isRateLimited, rateLimitResetTime, coolFrom>>
       ELSE FnCatches(k, status)
  /\ UNCHANGED <<storeMode, dlStore, lateStart>>
  /\ UNCHANGED <<now, ticks>>
  /\ UNCHANGED outsideDl

\* await setCachedTree(...) inside the try of the fetch function returns or
\* rejects
TreeCached(k) ==
  /\ fnpc[k] = "cacheTree"
  /\ IF storeMode = "up"
       THEN /\ dlStore' = [dlStore EXCEPT ![<<"tree", k>>] =
                             <<CacheEntry("tree", TreeOf(k), Null, now)>>]
            /\ fnpc' = [fnpc EXCEPT ![k] = "none"]
            /\ FnReturns(k, TreeOf(k))
            /\ UNCHANGED <<isRateLimited, rateLimitResetTime, coolFrom>>
       ELSE /\ FnCatches(k, "storage")
            /\ UNCHANGED dlStore
  /\ UNCHANGED <<storeMode, lateStart>>
  /\ UNCHANGED <<now, ticks>>
  /\ UNCHANGED outsideDl

\* the REQUEST_DELAY timeout of processQueue fires
FetchDelayEnds(i) ==
  /\ QDelayEnds(i)
  /\ FnStarts("waited")
  /\ UNCHANGED <<storeMode, dlStore, rows, treeOut, inFlightTreeFetches,
                 isRateLimited, rateLimitResetTime, coolFrom>>
  /\ UNCHANGED <<now, ticks>>
  /\ UNCHANGED outsideDl

\* calculateFolderSize: a response arrives; any failure makes the size 0
FolderResponds(r, status) ==
  /\ rows[r].pc \in {"folderCommit", "folderTree"}
  /\ IF status # "ok"
       THEN /\ rows' = [rows EXCEPT ![r].pc = "done", ![r].out = "shown"]
            /\ UNCHANGED lateStart
       ELSE IF rows[r].pc = "folderCommit"
       THEN /\ rows' = [rows EXCEPT ![r].pc = "folderTree"]
            /\ lateStart' = ApiStart("folder")
       ELSE /\ rows' = [rows EXCEPT ![r].pc = "write"]
            /\ UNCHANGED lateStart
  /\ UNCHANGED <<storeMode, dlStore, fnpc, treeOut, inFlightTreeFetches,
                 isRateLimited, rateLimitResetTime, coolFrom>>
  /\ UNCHANGED <<queueVars, now, ticks>>
  /\ UNCHANGED outsideDl

\* await setCachedFileMetadata(...) in getFileMetadata, or await
\* setCachedFolderSize(...) in addDownloadInfo, returns or rejects
RowCached(r) ==
  /\ rows[r].pc = "write"
  /\ IF storeMode = "up"
       THEN /\ dlStore' = [dlStore EXCEPT ![<<rows[r].kind, r>>] =
                 <<CacheEntry(rows[r].kind,
                              IF rows[r].kind = "file" THEN MetadataOf(r)
                              ELSE SizeOf(r), Null, now)>>]
            /\ rows' = [rows EXCEPT ![r].pc = "done", ![r].out = "shown",
                          ![r].meta = IF rows[r].kind = "file"
                                        THEN MetadataOf(r) ELSE "none"]
       ELSE /\ rows' = [rows EXCEPT ![r].pc = "done", ![r].out = "error",
                          ![r].meta = IF rows[r].kind = "file"
                                        THEN "rejected" ELSE "none"]
            /\ UNCHANGED dlStore
  /\ UNCHANGED <<storeMode, fnpc, treeOut, inFlightTreeFetches,
                 isRateLimited, rateLimitResetTime, coolFrom, lateStart>>
  /\ UNCHANGED <<queueVars, now, ticks>>
  /\ UNCHANGED outsideDl

(***************************************************************************)
(* font-preview: processBlobView                                            *)
(***************************************************************************)
FONT_EXTENSIONS == {".ttf", ".otf", ".woff", ".woff2", ".eot"}

\* a page: whether its path has /blob/, and the file's name and extension
Page(blob, name, ext) == [blob |-> blob, name |-> name, ext |-> ext]
BlobPages ==
  {Page(TRUE, "Inter", ".ttf"), Page(TRUE, "Mono", ".WOFF2"),
   Page(TRUE, "README", ".md"), Page(FALSE, "fonts", ".ttf")}

\* path.toLowerCase(), on the extension
ToLowerCase(ext) == IF ext = ".WOFF2" THEN ".woff2" ELSE ext
IsFontFile(page) == ToLowerCase(page.ext) \in FONT_EXTENSIONS
\* the page gets a preview: a blob page of a font file
IsFontPage(page) == page.blob /\ IsFontFile(page)

\* the elements processBlobView creates: the loading state, the canvas
\* preview and the error message of call c
PreviewElement(c, what) == <<c, what>>
NoPreview == <<0, "null">>
NoKey == Page(FALSE, "", "")

\* old.replaceWith(new): nothing happens when old has no parent
ReplaceWith(attached, old, new) ==
  IF old \in attached THEN (attached \ {old}) \cup {new} ELSE attached

FontInit ==
  /\ blobLoc \in BlobPages
  /\ headerProcessed = FALSE
  /\ headerKey = NoKey
  /\ blobCalls = <<>>
  /\ attachedPreviews = {}
  /\ currentFontPreview = NoPreview
  /\ currentFont = 0

\* the feature is not active
FontIdle ==
  /\ blobLoc = Page(TRUE, "README", ".md")
  /\ headerProcessed = FALSE
  /\ headerKey = NoKey
  /\ blobCalls = <<>>
  /\ attachedPreviews = {}
  /\ currentFontPreview = NoPreview
  /\ currentFont = 0

\* the host page navigates; the header element is reused
BlobNavigate(page) ==
  /\ Len(blobCalls) < MaxBlobCalls
  /\ page # blobLoc
  /\ blobLoc' = page
  /\ UNCHANGED <<headerProcessed, headerKey, blobCalls, attachedPreviews,
                 currentFontPreview, currentFont>>
  /\ UNCHANGED outsideFont

\* processBlobView(element) up to its first await, called by a watch for
\* the header element
ProcessBlobView ==
  /\ Len(blobCalls) < MaxBlobCalls
  /\ LET c == Len(blobCalls) + 1
         loading == PreviewElement(c, "loading")
         cleaned == attachedPreviews \ {currentFontPreview} IN
     /\ currentFont' = 0
     /\ IF \/ ~IsFontPage(blobLoc)
           \/ headerProcessed /\ headerKey = blobLoc
          THEN /\ blobCalls' = Append(blobCalls, [pc |-> "done", page |-> blobLoc])
               /\ attachedPreviews' = cleaned
               /\ currentFontPreview' = NoPreview
               /\ UNCHANGED <<headerProcessed, headerKey>>
          ELSE /\ headerProcessed' = TRUE
               /\ headerKey' = blobLoc
               /\ blobCalls' = Append(blobCalls, [pc |-> "sha", page |-> blobLoc])
               /\ attachedPreviews' = cleaned \cup {loading}
               /\ currentFontPreview' = loading
  /\ UNCHANGED blobLoc
  /\ UNCHANGED outsideFont

\* the catch of processBlobView: the error message replaces the loading state
BlobCallFails(c) ==
  /\ blobCalls' = [blobCalls EXCEPT ![c].pc = "done"]
  /\ attachedPreviews' = ReplaceWith(attachedPreviews,
                                     PreviewElement(c, "loading"),
                                     PreviewElement(c, "error"))
  /\ currentFontPreview' = PreviewElement(c, "error")
  /\ UNCHANGED currentFont

\* getFileSha of call c returns a sha (found) or null
ShaArrives(c, found) ==
  /\ c \in 1..Len(blobCalls)
  /\ blobCalls[c].pc = "sha"
  /\ IF found
       THEN /\ blobCalls' = [blobCalls EXCEPT ![c].pc = "blob"]
            /\ UNCHANGED <<attachedPreviews, currentFontPreview, currentFont>>
       ELSE BlobCallFails(c)
  /\ UNCHANGED <<blobLoc, headerProcessed, headerKey>>
  /\ UNCHANGED outsideFont

\* the blob request of call c returns a font that parses, or the request or
\* fontkit.create throws
BlobArrives(c, parsed) ==
  /\ c \in 1..Len(blobCalls)
  /\ blobCalls[c].pc = "blob"
  /\ IF parsed
       THEN /\ blobCalls' = [blobCalls EXCEPT ![c].pc = "done"]
            /\ currentFont' = c
            /\ attachedPreviews' = ReplaceWith(attachedPreviews,
                                               PreviewElement(c, "loading"),
                                               PreviewElement(c, "preview"))
            /\ currentFontPreview' = PreviewElement(c, "preview")
       ELSE BlobCallFails(c)
  /\ UNCHANGED <<blobLoc, headerProcessed, headerKey>>
  /\ UNCHANGED outsideFont

(***************************************************************************)
(* The options page (entrypoints/options/main.ts)                          *)
(***************************************************************************)
PAT_STORAGE_KEY == "githubPat"
PatMask == "********"
\* what the user may have in the token input when clicking Save
InputValues == {"", "  ", PatMask, "ghp_A", " ghp_B "}
\* String.prototype.trim
Trim(v) ==
  CASE v = "  " -> ""
    [] v = " ghp_B " -> "ghp_B"
    [] OTHER -> v
\* every value the token can have in a store
Tokens == {"ghp_token"} \cup ({Trim(v) : v \in InputValues} \ {""})

Themes == {"auto", "light", "dark"}
\* the click handler's cycle: auto -> light -> dark -> auto
NextTheme(currentTheme) ==
  CASE currentTheme = "auto" -> "light"
    [] currentTheme = "light" -> "dark"
    [] OTHER -> "auto"

\* the keys of storage.sync besides the two records of the registry
SyncExtraKeys == {"gh-enh-suite:data", PAT_STORAGE_KEY}
\* the toggles and the option the model's user operates
ClickedFeatures == {"font-preview", "code-colors"}
EditedOption == <<"collapse-in-comment", "initiallyCollapsed">>

\* the storage area savePat and loadPat use
PatStorageAreaSync == "sync"
PatStorageArea == "local"

\* loadPat()
LoadPat(local, extra) ==
  IF PatStorageArea = "local" THEN local ELSE extra[PAT_STORAGE_KEY]

\* savePat(pat): the stored value afterwards, Null when removed
SavedPat(pat) ==
  IF pat # Null /\ Trim(pat) # "" THEN Trim(pat) ELSE Null

\* getFeatureEnabledStates()[feature.id]
EnabledState(feature, settings) ==
  IF feature.id \in DOMAIN settings THEN settings[feature.id]
  ELSE feature.isEnabledByDefault

\* renderFeatures(): the toggle of every feature, from the stores as read
RenderFeatures(settings, pat) ==
  [fid \in FeatureIds |->
     LET feature == ALL_FEATURES[CHOOSE i \in FeatureIndexes :
                                   ALL_FEATURES[i].id = fid] IN
       IF feature.requiresPAT /\ (pat = Null \/ pat = "")
         THEN [disabled |-> TRUE, checked |-> FALSE]
         ELSE [disabled |-> FALSE, checked |-> EnabledState(feature, settings)]]

NoToggles == [fid \in FeatureIds |-> [disabled |-> FALSE, checked |-> FALSE]]

\* the pass of the content script is not running
PassIdle ==
  /\ bpc = "idle"
  /\ pageType = "unknown"
  /\ featureSettings = EmptyRec
  /\ featureOptions = EmptyRec
  /\ hasPAT = FALSE
  /\ idx = 1
  /\ invoked = <<>>
  /\ passed = [i \in {} |-> EmptyRec]
  /\ warned = {}
  /\ failed = {}
  /\ gotValues = [featureId |-> "", values |-> EmptyRec]

\* the options page is closed
OptionsIdle ==
  /\ loaded = FALSE
  /\ patInput = ""
  /\ toggles = NoToggles
  /\ localTheme = Null
  /\ syncExtra = [key \in SyncExtraKeys |-> Null]
  /\ patActions = 0
  /\ edits = 0

OptionsInit ==
  /\ OptionsIdle
  /\ PassIdle
  /\ syncSettings = EmptyRec
  /\ syncOptions = EmptyRec
  /\ localPat \in {Null, "ghp_token"}

\* savePat(pat) on the stores
SavePat(pat) ==
  IF PatStorageArea = "local"
    THEN /\ localPat' = SavedPat(pat)
         /\ UNCHANGED syncExtra
    ELSE /\ syncExtra' = [syncExtra EXCEPT ![PAT_STORAGE_KEY] = SavedPat(pat)]
         /\ UNCHANGED localPat

\* main(): initTheme, initPatSection, renderFeatures
OptionsMain ==
  /\ ~loaded
  /\ loaded' = TRUE
  /\ patInput' = IF LoadPat(localPat, syncExtra) \notin {Null, ""}
                   THEN PatMask ELSE ""
  /\ toggles' = RenderFeatures(syncSettings, LoadPat(localPat, syncExtra))
  /\ UNCHANGED <<localTheme, syncExtra, patActions, edits>>
  /\ UNCHANGED storeVars
  /\ UNCHANGED outsideOptions

\* the user edits the token input
TypeToken(v) ==
  /\ loaded
  /\ patActions < MaxPatActions
  /\ v # patInput
  /\ patActions' = patActions + 1
  /\ patInput' = v
  /\ UNCHANGED <<loaded, toggles, localTheme, syncExtra, edits>>
  /\ UNCHANGED storeVars
  /\ UNCHANGED outsideOptions

\* click on Save token
SaveTokenClick ==
  /\ loaded
  /\ patActions < MaxPatActions
  /\ patActions' = patActions + 1
  /\ LET value == Trim(patInput) IN
       /\ SavePat(value)
       /\ IF value # "" /\ value # PatMask
            THEN /\ patInput' = PatMask
                 /\ toggles' = RenderFeatures(syncSettings,
                                              LoadPat(localPat', syncExtra'))
            ELSE UNCHANGED <<patInput, toggles>>
  /\ UNCHANGED <<loaded, localTheme, edits>>
  /\ UNCHANGED <<syncSettings, syncOptions>>
  /\ UNCHANGED outsideOptions

\* click on Clear token
ClearTokenClick ==
  /\ loaded
  /\ patActions < MaxPatActions
  /\ patActions' = patActions + 1
  /\ SavePat(Null)
  /\ patInput' = ""
  /\ toggles' = RenderFeatures(syncSettings, LoadPat(localPat', syncExtra'))
  /\ UNCHANGED <<loaded, localTheme, edits>>
  /\ UNCHANGED <<syncSettings, syncOptions>>
  /\ UNCHANGED outsideOptions

\* the user flips a feature toggle: the change handler
ToggleChange(fid) ==
  /\ loaded
  /\ edits < MaxEdits
  /\ ~toggles[fid].disabled
  /\ edits' = edits + 1
  /\ toggles' = [toggles EXCEPT ![fid].checked = ~toggles[fid].checked]
  /\ syncSettings' =
       [f \in DOMAIN syncSettings \cup {fid} |->
          IF f = fid THEN ~toggles[fid].checked ELSE syncSettings[f]]
  /\ UNCHANGED <<loaded, patInput, localTheme, syncExtra, patActions>>
  /\ UNCHANGED <<syncOptions, localPat>>
  /\ UNCHANGED outsideOptions

\* the user changes an option input: updateFeatureOption
OptionChange(fid, key, value) ==
  /\ loaded
  /\ edits < MaxEdits
  /\ edits' = edits + 1
  /\ syncOptions' =
       [f \in DOMAIN syncOptions \cup {fid} |->
          IF f = fid
            THEN [k \in (IF fid \in DOMAIN syncOptions
                           THEN DOMAIN syncOptions[fid] ELSE {}) \cup {key} |->
                    IF k = key THEN value ELSE syncOptions[fid][k]]
            ELSE syncOptions[f]]
  /\ UNCHANGED <<loaded, patInput, toggles, localTheme, syncExtra, patActions>>
  /\ UNCHANGED <<syncSettings, localPat>>
  /\ UNCHANGED outsideOptions

\* click on the theme button
ThemeClick ==
  /\ loaded
  /\ edits < MaxEdits
  /\ edits' = edits + 1
  /\ localTheme' = NextTheme(IF localTheme = Null THEN "auto" ELSE localTheme)
  /\ UNCHANGED <<loaded, patInput, toggles, syncExtra, patActions>>
  /\ UNCHANGED storeVars
  /\ UNCHANGED outsideOptions

\* ctx.storage.set(key, value) of a feature
FeatureStorageSet(value) ==
  /\ edits < MaxEdits
  /\ edits' = edits + 1
  /\ syncExtra' = [syncExtra EXCEPT !["gh-enh-suite:data"] = value]
  /\ UNCHANGED <<loaded, patInput, toggles, localTheme, patActions>>
  /\ UNCHANGED storeVars
  /\ UNCHANGED outsideOptions

(***************************************************************************)
(* core/github-page-detect.ts                                              *)
(***************************************************************************)
\* the pieces a pathname is made of; "" stands for a doubled or trailing "/"
Segments == {"", "notifications", "notifications-hub", "settings", "orgs",
             "octocat", "hubquilt", "issues", "pull", "pulls", "blob", "tree",
             "42"}
Pathnames == UNION {[1..n -> Segments] : n \in 0..MaxSegments}

\* pathname.split("/").filter(Boolean)
RECURSIVE FilterBoolean(_)
FilterBoolean(pieces) ==
  IF pieces = <<>> THEN <<>>
  ELSE IF Head(pieces) = "" THEN FilterBoolean(Tail(pieces))
  ELSE <<Head(pieces)>> \o FilterBoolean(Tail(pieces))

\* pathname.startsWith("/notifications")
StartsWithNotifications(pieces) ==
  pieces # <<>> /\ pieces[1] \in {"notifications", "notifications-hub"}

ReservedNames == {"settings", "orgs", "organizations", "marketplace"}

\* parts[i], "" for undefined
Part(parts, i) == IF i <= Len(parts) THEN parts[i] ELSE ""

\* detectRepoFromLocation(location) !== null
DetectRepoFromLocation(pieces) == Len(FilterBoolean(pieces)) >= 2

DetectPageType(pieces) ==
  LET parts == FilterBoolean(pieces)
      section == Part(parts, 3)
      maybeId == Part(parts, 4) IN
    IF StartsWithNotifications(pieces) THEN "notifications"
    ELSE IF Len(parts) = 1 /\ parts[1] \notin ReservedNames THEN "profile"
    ELSE IF ~DetectRepoFromLocation(pieces) THEN "unknown"
    ELSE IF Len(parts) = 2 THEN "repo"
    ELSE IF section = "issues" /\ maybeId # "" THEN "issue"
    ELSE IF section = "issues" THEN "issue-list"
    ELSE IF section = "pull" /\ maybeId # "" THEN "pull"
    ELSE IF section = "pulls" THEN "pull-list"
    ELSE IF section \in {"blob", "tree"} THEN "code"
    ELSE "repo"

DetectInit ==
  /\ pathname \in Pathnames
  /\ detected = "none"

\* no page type was asked for
DetectIdle ==
  /\ pathname = <<>>
  /\ detected = "none"

\* detectPageType(document, location)
Detect ==
  /\ detected = "none"
  /\ detected' = DetectPageType(pathname)
  /\ UNCHANGED pathname
  /\ UNCHANGED outsideDetect

(***************************************************************************)
(* The request queue with its timing (REQUEST_DELAY)                       *)
(***************************************************************************)
REQUEST_DELAY == 300

\* the amounts of time the model lets pass in one step
DelaySteps == {100, 300}

TimedInit ==
  /\ sinceDone = -1
  /\ delayLeft = -1
  /\ startGaps = <<>>

TimedIdle == TimedInit

\* the gaps after a step: a request function that starts in the step is
\* recorded with the time since the last completion
GapsAfter ==
  IF Len(started') > Len(started) /\ sinceDone # -1
    THEN Append(startGaps, sinceDone)
    ELSE startGaps

\* queueRequest(fn) at any moment
TimedQueueRequest(k) ==
  /\ k \notin Range(requestQueue) \cup Executing
  /\ QEnqueue(k)
  /\ startGaps' = GapsAfter
  /\ UNCHANGED <<sinceDone, delayLeft>>
  /\ UNCHANGED outsideTimed

\* request.fn() settles; setTimeout(resolve, REQUEST_DELAY) if a request waits
TimedFnSettles(i) ==
  /\ QSettle(i)
  /\ sinceDone' = 0
  /\ delayLeft' = IF requestQueue # <<>> THEN REQUEST_DELAY ELSE delayLeft
  /\ UNCHANGED startGaps
  /\ UNCHANGED outsideTimed

\* the timeout fires, not before its delay has passed
TimedDelayEnds(i) ==
  /\ delayLeft = 0
  /\ QDelayEnds(i)
  /\ delayLeft' = -1
  /\ startGaps' = GapsAfter
  /\ UNCHANGED sinceDone
  /\ UNCHANGED outsideTimed

\* time passes
TimePasses(d) ==
  /\ sinceDone # -1
  /\ sinceDone < REQUEST_DELAY \/ delayLeft > 0
  /\ sinceDone' = IF sinceDone + d > REQUEST_DELAY THEN REQUEST_DELAY
                                                  ELSE sinceDone + d
  /\ delayLeft' = IF delayLeft = -1 THEN -1
                  ELSE IF delayLeft > d THEN delayLeft - d ELSE 0
  /\ UNCHANGED startGaps
  /\ UNCHANGED queueVars
  /\ UNCHANGED outsideTimed

(***************************************************************************)
(* file-downloads: the calls of addDownloadInfo on one element             *)
(***************************************************************************)
\* a call of addDownloadInfo on element el
InfoCall(el, pc) == [el |-> el, pc |-> pc]

\* variant: the element is marked only by the querySelector branch
MarkedLate(set, el) == set
\* processedElements.add(element) before the first await
MarkedEarly(set, el) == set \cup {el}

InfoInit ==
  /\ processedElements = {}
  /\ infoCalls = <<>>
  /\ containers = [el \in Rows |-> 0]
  /\ inserted = [el \in Rows |-> 0]

InfoIdle == InfoInit

\* addDownloadInfo(el) up to its first await, called by a watch for a row
\* match or for a container match; extracted: filename, path, ref and the
\* actions cell were found
InfoStarts(el, extracted) ==
  /\ Len(infoCalls) < MaxInfoCalls
  /\ IF el \in processedElements
       THEN /\ infoCalls' = Append(infoCalls, InfoCall(el, "returned"))
            /\ UNCHANGED processedElements
       ELSE IF containers[el] > 0
       THEN /\ infoCalls' = Append(infoCalls, InfoCall(el, "returned"))
            /\ processedElements' = processedElements \cup {el}
       ELSE /\ processedElements' = MarkedEarly(processedElements, el)
            /\ infoCalls' = Append(infoCalls,
                 InfoCall(el, IF extracted THEN "await" ELSE "returned"))
  /\ UNCHANGED <<containers, inserted>>
  /\ UNCHANGED outsideInfo

\* the awaits of the call (cache reads, getFileMetadata, calculateFolderSize)
\* are over: without metadata, or after an exception, the call returns;
\* otherwise the container is built and appended (a tree item without
\* .PRIVATE_TreeView-item-content gets none)
InfoSettles(c, gotData, hasContent) ==
  /\ c \in 1..Len(infoCalls)
  /\ infoCalls[c].pc = "await"
  /\ infoCalls' = [infoCalls EXCEPT ![c].pc = "returned"]
  /\ IF gotData /\ hasContent
       THEN /\ containers' = [containers EXCEPT ![infoCalls[c].el] = @ + 1]
            /\ inserted' = [inserted EXCEPT ![infoCalls[c].el] = @ + 1]
       ELSE UNCHANGED <<containers, inserted>>
  /\ UNCHANGED processedElements
  /\ UNCHANGED outsideInfo

\* the host page re-renders the row: the container is gone, the element stays
HostRerenders(el) ==
  /\ containers[el] > 0
  /\ containers' = [containers EXCEPT ![el] = 0]
  /\ UNCHANGED <<processedElements, infoCalls, inserted>>
  /\ UNCHANGED outsideInfo

(***************************************************************************)
(* api-limit: apiLimit.init, called by every activation pass               *)
(***************************************************************************)
\* document.querySelector('[data-gh-enh-rate-limit]')?.remove(): the first
\* indicator, if any, is removed
AfterRemove(n) == IF n > 0 THEN n - 1 ELSE 0

LimitInit ==
  /\ indicators = 0
  /\ limitInits = <<>>

LimitIdle == LimitInit

\* an activation pass calls apiLimit.init: up to await githubApi.hasToken().
\* Passes are started by main and by every URL-change timeout, whether or
\* not an earlier pass has finished.
LimitInitCalled ==
  /\ Len(limitInits) < MaxLimitInits
  /\ indicators' = AfterRemove(indicators)
  /\ limitInits' = Append(limitInits, "hasToken")
  /\ UNCHANGED outsideLimit

\* await githubApi.hasToken() returns
LimitHasToken(c, has) ==
  /\ c \in 1..Len(limitInits)
  /\ limitInits[c] = "hasToken"
  /\ limitInits' = [limitInits EXCEPT ![c] = IF has THEN "getRateLimit"
                                                     ELSE "returned"]
  /\ UNCHANGED indicators
  /\ UNCHANGED outsideLimit

\* await githubApi.getRateLimit() returns a limit, returns nothing or throws
LimitArrives(c, got) ==
  /\ c \in 1..Len(limitInits)
  /\ limitInits[c] = "getRateLimit"
  /\ limitInits' = [limitInits EXCEPT ![c] = "returned"]
  /\ indicators' = IF got THEN indicators + 1 ELSE indicators
  /\ UNCHANGED outsideLimit

(***************************************************************************)
(* module-linker: addLinkToSymbolPane, processSymbolChange                 *)
(***************************************************************************)
\* the aria-labels the pane may show: two dependencies of the file, one of
\* them also in quotes, and a symbol that is no dependency
SymbolTexts == {"a", "'a'", "b", "local"}

\* text.replace(/["']/g, '').trim()
ExtractModuleName(text) == IF text = "'a'" THEN "a" ELSE text

\* isModuleSymbol: cachedDependencies.has(moduleName)
IsModuleSymbol(text) == ExtractModuleName(text) \in {"a", "b"}

\* variant: the pane is not looked at again after the fetch
StillShowsUnchecked(text, moduleName) == TRUE
\* extractModuleName(currentSymbolText) === moduleName, after the fetch
StillShows(text, moduleName) == ExtractModuleName(text) = moduleName

\* a call that awaits githubFetcher(moduleName); awaited: processSymbolChange
\* awaits the call
LinkCall(moduleName, awaited) == [mod |-> moduleName, awaited |-> awaited]

LinkerIdle ==
  /\ observing = FALSE
  /\ shown = "a"
  /\ symbolChanges = 0
  /\ isAddingLinks = FALSE
  /\ currentProcessingSymbol = ""
  /\ registryLinks = <<>>
  /\ githubLinks = <<>>
  /\ linkCalls = <<>>
  /\ retryTimers = 0
  /\ processingTimer = FALSE
  /\ lastSymbolText = ""
  /\ isProcessing = FALSE

\* the pane has been found and shows some symbol
LinkerInit ==
  /\ observing = FALSE
  /\ shown \in SymbolTexts
  /\ symbolChanges = 0
  /\ isAddingLinks = FALSE
  /\ currentProcessingSymbol = ""
  /\ registryLinks = <<>>
  /\ githubLinks = <<>>
  /\ linkCalls = <<>>
  /\ retryTimers = 0
  /\ processingTimer = FALSE
  /\ lastSymbolText = ""
  /\ isProcessing = FALSE

\* addLinkToSymbolPane(symbolPane) up to its await; awaited tells whether
\* processSymbolChange made the call, timers is the number of retry timeouts
\* pending when the call starts.  The file's language has a registry URL
\* and a GitHub fetcher.
AddLinkToSymbolPane(awaited, timers) ==
  LET moduleName == ExtractModuleName(shown) IN
  IF isAddingLinks /\ currentProcessingSymbol = moduleName
    THEN /\ retryTimers' = timers
         /\ UNCHANGED <<isAddingLinks, currentProcessingSymbol, registryLinks,
                        githubLinks, linkCalls>>
  ELSE IF isAddingLinks
    THEN /\ retryTimers' = timers + 1
         /\ UNCHANGED <<isAddingLinks, currentProcessingSymbol,
                        registryLinks, githubLinks, linkCalls>>
  ELSE IF ~IsModuleSymbol(shown)
    THEN \* the links are removed, then return: finally
         /\ registryLinks' = <<>>
         /\ githubLinks' = <<>>
         /\ retryTimers' = timers
         /\ UNCHANGED <<isAddingLinks, currentProcessingSymbol, linkCalls>>
  ELSE /\ isAddingLinks' = TRUE
       /\ currentProcessingSymbol' = moduleName
       /\ registryLinks' = <<moduleName>>
       /\ githubLinks' = <<>>
       /\ linkCalls' = Append(linkCalls, LinkCall(moduleName, awaited))
       /\ retryTimers' = timers

\* the setTimeout(..., 50) callback of the pane watch: the initial call, then
\* the observer on the h3
PaneReady ==
  /\ ~observing
  /\ observing' = TRUE
  /\ AddLinkToSymbolPane(FALSE, retryTimers)
  /\ UNCHANGED <<shown, symbolChanges, processingTimer, lastSymbolText,
                 isProcessing>>
  /\ UNCHANGED outsideLinker

\* the user selects another symbol: the aria-label of the h3 changes and the
\* observer's callback restarts the 100 ms debounce timer
SymbolChanges(text) ==
  /\ observing
  /\ symbolChanges < MaxSymbolChanges
  /\ text # shown
  /\ shown' = text
  /\ symbolChanges' = symbolChanges + 1
  /\ processingTimer' = TRUE
  /\ UNCHANGED <<observing, isAddingLinks, currentProcessingSymbol,
                 registryLinks, githubLinks, linkCalls, retryTimers,
                 lastSymbolText, isProcessing>>
  /\ UNCHANGED outsideLinker

\* the debounce timer fires: processSymbolChange() up to its await, and its
\* finally when the call returned without awaiting
ProcessSymbolChange ==
  /\ processingTimer
  /\ processingTimer' = FALSE
  /\ IF shown = lastSymbolText
       THEN UNCHANGED <<lastSymbolText, isProcessing, isAddingLinks,
                        currentProcessingSymbol, registryLinks, githubLinks,
                        linkCalls, retryTimers>>
       ELSE /\ lastSymbolText' = shown
            /\ IF isProcessing
                 THEN UNCHANGED <<isProcessing, isAddingLinks,
                                  currentProcessingSymbol, registryLinks,
                                  githubLinks, linkCalls, retryTimers>>
                 ELSE /\ AddLinkToSymbolPane(TRUE, retryTimers)
                      /\ isProcessing' = (Len(linkCalls') > Len(linkCalls))
  /\ UNCHANGED <<observing, shown, symbolChanges>>
  /\ UNCHANGED outsideLinker

\* a retry timeout fires: addLinkToSymbolPane(symbolPane)
RetryFires ==
  /\ retryTimers > 0
  /\ AddLinkToSymbolPane(FALSE, retryTimers - 1)
  /\ UNCHANGED <<observing, shown, symbolChanges, processingTimer,
                 lastSymbolText, isProcessing>>
  /\ UNCHANGED outsideLinker

\* githubFetcher(moduleName) of call c settles, with a URL or without; the
\* rest of addLinkToSymbolPane, its finally, and the finally of
\* processSymbolChange if it awaits the call
FetcherSettles(c, gotUrl) ==
  /\ c \in 1..Len(linkCalls)
  /\ githubLinks' =
       IF gotUrl /\ StillShows(shown, linkCalls[c].mod) /\ githubLinks = <<>>
         THEN <<linkCalls[c].mod>> ELSE githubLinks
  /\ isAddingLinks' = FALSE
  /\ currentProcessingSymbol' = ""
  /\ isProcessing' = IF linkCalls[c].awaited THEN FALSE ELSE isProcessing
  /\ linkCalls' = RemoveAt(linkCalls, c)
  /\ UNCHANGED <<observing, shown, symbolChanges, registryLinks, retryTimers,
                 processingTimer, lastSymbolText>>
  /\ UNCHANGED outsideLinker

(***************************************************************************)
(* feature-registry: updateFeatureEnabled, updateFeatureOption             *)
(***************************************************************************)
\* the features whose toggle the user may flip, and the options they may edit
UpdatedFeatures == {"code-colors", "font-preview"}
UpdatedOptions ==
  {<<"collapse-in-comment", "minLines">>,
   <<"collapse-in-comment", "initiallyCollapsed">>,
   <<"file-downloads", "showFileSize">>}

\* settings[id] = enabled, on the map the call has read
WithEnabled(settings, id, enabled) ==
  [f \in DOMAIN settings \cup {id} |->
     IF f = id THEN enabled ELSE settings[f]]

\* if (!allOptions[featureId]) allOptions[featureId] = {};
\* allOptions[featureId][optionKey] = value, on the map the call has read
WithOption(allOptions, featureId, optionKey, value) ==
  [f \in DOMAIN allOptions \cup {featureId} |->
     IF f = featureId
       THEN [k \in (IF featureId \in DOMAIN allOptions
                      THEN DOMAIN allOptions[featureId] ELSE {})
                   \cup {optionKey} |->
               IF k = optionKey THEN value ELSE allOptions[featureId][k]]
       ELSE allOptions[f]]

\* a call between its read of the store and its write: map is what it will
\* write
UpdateCall(kind, id, key, value, pc, map) ==
  [kind |-> kind, id |-> id, key |-> key, value |-> value, pc |-> pc,
   map |-> map]

\* the variables of the activation pass, besides the two stored maps
passVars == <<localPat, bpc, pageType, featureSettings, featureOptions,
              hasPAT, idx, invoked, passed, warned, failed, gotValues>>

UpdateIdle ==
  /\ updates = <<>>
  /\ storeBefore = <<EmptyRec, EmptyRec>>

UpdateInit ==
  /\ updates = <<>>
  /\ syncSettings \in SettingsChoices(MaxSaved)
  /\ syncOptions \in OptionsChoices(MaxSaved)
  /\ storeBefore = <<syncSettings, syncOptions>>
  /\ localPat = Null
  /\ PassIdle

\* updateFeatureEnabled(id, enabled) up to `await setFeatureSettings`: the
\* stored map is read and the entry set on the copy
UpdateFeatureEnabled(id, enabled) ==
  /\ Len(updates) < MaxUpdates
  /\ updates' = Append(updates,
       UpdateCall("enabled", id, "", enabled, "set",
                  WithEnabled(syncSettings, id, enabled)))
  /\ UNCHANGED <<syncSettings, syncOptions, storeBefore, passVars>>
  /\ UNCHANGED outsideUpdate

\* updateFeatureOption(featureId, optionKey, value) up to
\* `await setFeatureOptions`
UpdateFeatureOption(featureId, optionKey, value) ==
  /\ Len(updates) < MaxUpdates
  /\ updates' = Append(updates,
       UpdateCall("option", featureId, optionKey, value, "set",
                  WithOption(syncOptions, featureId, optionKey, value)))
  /\ UNCHANGED <<syncSettings, syncOptions, storeBefore, passVars>>
  /\ UNCHANGED outsideUpdate

\* storageApi.sync.set of call c: the whole map the call holds replaces the
\* stored one
UpdateWritten(c) ==
  /\ c \in 1..Len(updates)
  /\ updates[c].pc = "set"
  /\ updates' = [updates EXCEPT ![c].pc = "done"]
  /\ IF updates[c].kind = "enabled"
       THEN syncSettings' = updates[c].map /\ UNCHANGED syncOptions
       ELSE syncOptions' = updates[c].map /\ UNCHANGED syncSettings
  /\ UNCHANGED <<storeBefore, passVars>>
  /\ UNCHANGED outsideUpdate

(***************************************************************************)
(* The request queue with the outcomes of the request functions            *)
(***************************************************************************)
Outcomes == {"fulfilled", "rejected"}

\* variant: no try/catch around `await request.fn()`
LoopGoesOnUncaught(outcome) == outcome = "fulfilled"
\* try { ... request.resolve(result) } catch (error) { request.reject(error) }:
\* the loop of processQueue goes on after either outcome
LoopGoesOn(outcome) == TRUE

LiveInit ==
  /\ fnOutcome = <<>>
  /\ promises = <<>>

LiveIdle == LiveInit

\* a request function has just been called
OutcomesAfterStart ==
  IF Len(started') > Len(started) THEN Append(fnOutcome, "pending")
  ELSE fnOutcome

\* queueRequest(fn): the promise is created, then push and processQueue()
LiveQueueRequest(k) ==
  /\ k \notin Range(requestQueue) \cup Executing
  /\ QEnqueue(k)
  /\ promises' = Append(promises, "pending")
  /\ fnOutcome' = OutcomesAfterStart
  /\ UNCHANGED outsideLive

\* request.fn() of runner i settles with outcome: request.resolve(result) or
\* request.reject(error), and the loop goes on.  The function that settles
\* is the one started last.
LiveFnSettles(i, outcome) ==
  /\ i \in 1..Len(runners)
  /\ runners[i].pc = "fn"
  /\ fnOutcome' = [fnOutcome EXCEPT ![Len(started)] = outcome]
  /\ IF LoopGoesOn(outcome)
       THEN /\ QSettle(i)
            /\ promises' = [promises EXCEPT ![Len(started)] = outcome]
       ELSE /\ runners' = RemoveAt(runners, i)
            /\ UNCHANGED <<requestQueue, isProcessingQueue, enqueued,
                           started, promises>>
  /\ UNCHANGED outsideLive

\* the REQUEST_DELAY timeout of runner i fires
LiveDelayEnds(i) ==
  /\ QDelayEnds(i)
  /\ fnOutcome' = OutcomesAfterStart
  /\ UNCHANGED promises
  /\ UNCHANGED outsideLive

\* the parts below the page detection are not running
RestIdle ==
  TimedIdle /\ InfoIdle /\ LimitIdle /\ LinkerIdle /\ UpdateIdle
  /\ LiveIdle

(***************************************************************************)
(* Specifications                                                          *)
(***************************************************************************)
WatchNext ==
  \/ \E w \in Watches, sa \in SelectorChoices :
       \E t \in ProcessorChoices(sa) : ObserveAndProcess(w, sa, t)
  \/ \E n \in Nodes, p \in {Body} \cup Nodes : InsertNode(n, p)
  \/ \E n \in Nodes : RemoveNode(n)
  \/ \E w \in Watches : MutationCallback(w)
  \/ \E w \in Watches : Disconnect(w)

WatchSpecInit == WatchIdle /\ BootIdle /\ UrlIdle /\ CacheIdle /\ QueueIdle /\ DlIdle
  /\ FontIdle /\ OptionsIdle /\ DetectIdle /\ RestIdle

SpecWatch == WatchSpecInit /\ [][WatchNext]_vars

BootNext ==
  \/ \E pt \in PageTypes : BootStart(pt)
  \/ BootGetSettings
  \/ BootGetOptions
  \/ BootHasToken
  \/ BootStorageRejects
  \/ BootSkip
  \/ BootSkipNoPat
  \/ BootInitThrows
  \/ BootInitCalled
  \/ BootInitResolves
  \/ BootInitRejects
  \/ BootFinish
  \/ \E fid \in FeatureIds \cup {"no-such-feature"} : GetFeatureOptionValues(fid)

BootSpecInit == BootInit /\ WatchIdle /\ UrlIdle /\ CacheIdle /\ QueueIdle /\ DlIdle
  /\ FontIdle /\ OptionsIdle /\ DetectIdle /\ RestIdle

SpecBoot == BootSpecInit /\ [][BootNext]_vars

UrlNext ==
  \/ Main
  \/ \E u \in Urls : Navigate(u)
  \/ DocumentMutation
  \/ UrlObserverCallback
  \/ \E d \in Durations : Elapse(d)
  \/ TimeoutFires

UrlSpecInit == UrlInit /\ WatchIdle /\ BootIdle /\ CacheIdle /\ QueueIdle /\ DlIdle
  /\ FontIdle /\ OptionsIdle /\ DetectIdle /\ RestIdle

SpecUrl == UrlSpecInit /\ [][UrlNext]_vars

CacheNext ==
  \/ \E k \in CacheKinds, v \in Payloads, c \in CommitTimes \cup {Null} :
       CacheSet(k, v, c)
  \/ \E k \in CacheKinds, c \in CommitTimes \cup {Null} : CacheRead(k, c)
  \/ ClockAdvances

CacheSpecInit == CacheInit /\ WatchIdle /\ BootIdle /\ UrlIdle /\ QueueIdle /\ DlIdle
  /\ FontIdle /\ OptionsIdle /\ DetectIdle /\ RestIdle

SpecCache == CacheSpecInit /\ [][CacheNext]_vars

QueueNext ==
  \/ \E k \in Refs : QueueRequest(k)
  \/ \E i \in 1..MaxEnqueues : FnSettles(i)
  \/ \E i \in 1..MaxEnqueues : DelayEnds(i)

QueueSpecInit == QueueInit /\ WatchIdle /\ BootIdle /\ UrlIdle /\ CacheIdle /\ DlIdle
  /\ FontIdle /\ OptionsIdle /\ DetectIdle /\ RestIdle

SpecQueue == QueueSpecInit /\ [][QueueNext]_vars

DlNext ==
  \/ \E r \in Rows, kind \in RowKinds, k \in Refs : AddDownloadInfo(r, kind, k)
  \/ \E r \in Rows : LimitedRead(r)
  \/ \E r \in Rows : CachedRead(r)
  \/ \E r \in Rows : TreeRead(r)
  \/ \E k \in Refs, status \in Statuses : CommitResponds(k, status)
  \/ \E k \in Refs, status \in Statuses : TreeResponds(k, status)
  \/ \E k \in Refs : TreeCached(k)
  \/ \E i \in 1..MaxEnqueues : FetchDelayEnds(i)
  \/ \E r \in Rows, status \in Statuses : FolderResponds(r, status)
  \/ \E r \in Rows : RowCached(r)
  \/ ClockAdvances

DlSpecInit ==
  DlInit /\ QueueInit /\ WatchIdle /\ BootIdle /\ UrlIdle /\ CacheIdle
  /\ FontIdle /\ OptionsIdle /\ DetectIdle /\ RestIdle

SpecDl == DlSpecInit /\ [][DlNext]_vars

FontNext ==
  \/ \E page \in BlobPages : BlobNavigate(page)
  \/ ProcessBlobView
  \/ \E c \in 1..MaxBlobCalls, found \in BOOLEAN : ShaArrives(c, found)
  \/ \E c \in 1..MaxBlobCalls, parsed \in BOOLEAN : BlobArrives(c, parsed)

FontSpecInit ==
  FontInit /\ WatchIdle /\ BootIdle /\ UrlIdle /\ CacheIdle /\ QueueIdle
  /\ DlIdle /\ OptionsIdle /\ DetectIdle /\ RestIdle

SpecFont == FontSpecInit /\ [][FontNext]_vars

OptionsNext ==
  \/ OptionsMain
  \/ \E v \in InputValues : TypeToken(v)
  \/ SaveTokenClick
  \/ ClearTokenClick
  \/ \E fid \in ClickedFeatures : ToggleChange(fid)
  \/ \E value \in OptionValues(EditedOption[2]) :
       OptionChange(EditedOption[1], EditedOption[2], value)
  \/ ThemeClick
  \/ FeatureStorageSet("data")

OptionsSpecInit ==
  OptionsInit /\ WatchIdle /\ UrlIdle /\ CacheIdle /\ QueueIdle /\ DlIdle
  /\ FontIdle /\ DetectIdle /\ RestIdle

SpecOptions == OptionsSpecInit /\ [][OptionsNext]_vars

DetectNext == Detect

DetectSpecInit ==
  DetectInit /\ WatchIdle /\ BootIdle /\ UrlIdle /\ CacheIdle /\ QueueIdle
  /\ DlIdle /\ FontIdle /\ OptionsIdle /\ RestIdle

SpecDetect == DetectSpecInit /\ [][DetectNext]_vars

(***************************************************************************)
(* Properties of observeAndProcess (SpecWatch)                             *)
(***************************************************************************)
Returned(w) == wstatus[w] \in {"active", "stopped"}

\* the elements of the document that match a selector of watch w
Matching(w) == {n \in Nodes : InDocument(n) /\ MatchesSome(n, wsels[w])}

\* C1: for one watch, over any sequence of mutation batches, the processor
\* is invoked at most once for each element instance.
C1_AtMostOncePerElement ==
  \A w \in Watches : \A n \in Nodes : calls[w][n] <= 1

\* C2: a processor that throws on one matched element does not keep the
\* watch from invoking it on the other matched elements of the same batch
\* (scan or mutation batch), the exception does not leave observeAndProcess
\* or the mutation callback, and the watch stays active.
C2_HandlerIsolation ==
  /\ lastRun.skipped = {}
  /\ ~lastRun.threw
  /\ \A w \in Watches : wstatus[w] # "threw"

\* C3: when observeAndProcess has returned, the processor has been invoked,
\* by the initial scan alone, for every matching element that was in the
\* document when it was called.
C3_InitialScanComplete ==
  \A w \in Watches :
    (lastScan.w = w /\ Returned(w)) =>
      /\ lastScan.found \subseteq lastScan.invoked
      /\ \A n \in lastScan.found : calls[w][n] >= 1

C3_Witness ==
  \E w \in Watches :
    /\ lastScan.w = w /\ Returned(w)
    /\ Cardinality(lastScan.found) >= 2
    /\ lastRun.kind = "scan" /\ lastRun.w = w

\* C4: while a watch is active and its observer has no record left to
\* deliver, the processor has been invoked for every matching element of the
\* document, so also for each one inserted (as an added node or inside an
\* added subtree) after the watch began.
C4_LateArrivalComplete ==
  \A w \in Watches :
    (Observing(w) /\ wqueue[w] = <<>>) =>
      \A n \in Matching(w) : calls[w][n] >= 1

\* C5: once the returned observer is disconnected, the processor of that
\* watch is never invoked again, whatever is inserted.
C5_NoCallsAfterStop ==
  [][\A w \in Watches : wstatus[w] = "stopped" => calls'[w] = calls[w]]_vars

C5_Witness ==
  \E w \in Watches :
    /\ wstatus[w] = "stopped"
    /\ \E n \in Matching(w) : calls[w][n] = 0

EnabledInStore(i) ==
  IF ALL_FEATURES[i].id \in DOMAIN syncSettings
  THEN syncSettings[ALL_FEATURES[i].id]
  ELSE ALL_FEATURES[i].isEnabledByDefault

OnPage(i) == pageType \in ALL_FEATURES[i].pageTypes

\* on the page, enabled, and not in need of a PAT that is missing
Eligible(i) ==
  /\ OnPage(i)
  /\ EnabledInStore(i)
  /\ ALL_FEATURES[i].requiresPAT => localPat # Null

\* the number of registry entries the loop has dealt with
Considered == IF bpc = "awaitInit" THEN idx ELSE idx - 1

InLoop == bpc \in {"loop", "awaitInit", "done"}

\* C7: in a pass the features are taken in registry order, init is invoked
\* exactly for those on the page, enabled (saved setting, else default) and
\* not lacking a required PAT; a feature skipped for a missing PAT is warned
\* about and the pass goes on to the end of the registry.
C7_ActivationFilter ==
  InLoop =>
    /\ invoked = SelectSeq([i \in 1..Considered |-> i], Eligible)
    /\ warned = {i \in 1..Considered :
                   /\ OnPage(i) /\ EnabledInStore(i)
                   /\ ALL_FEATURES[i].requiresPAT /\ localPat = Null}
    /\ bpc = "done" => Considered = Len(ALL_FEATURES)

C7_Witness ==
  /\ bpc = "done"
  /\ Len(invoked) >= 2
  /\ \E i \in warned : \E j \in warned \cup Range(invoked) : j > i
  /\ \E i \in FeatureIndexes : ~OnPage(i)
  /\ \E i \in FeatureIndexes :
       /\ OnPage(i)
       /\ ALL_FEATURES[i].id \in DOMAIN syncSettings
       /\ ~EnabledInStore(i)

\* C8: when the init of an eligible feature throws or rejects, the pass does
\* not reject, and it does not complete before the init of every eligible
\* feature has been invoked.
C8_InitFailureIsolated ==
  failed # {} =>
    /\ bpc # "rejected"
    /\ bpc = "done" => \A i \in FeatureIndexes : Eligible(i) => i \in Range(invoked)
    /\ \A i \in failed : \A j \in (i + 1)..Considered :
         Eligible(j) => j \in Range(invoked)

C8_Witness ==
  /\ bpc = "done"
  /\ \E i \in failed : \E j \in Range(invoked) : j > i

\* C9: the pass never waits for the init of one feature to settle while the
\* init of another eligible feature has not been invoked yet.
C9_ConcurrentActivation ==
  bpc = "awaitInit" =>
    \A i \in FeatureIndexes : Eligible(i) => i \in Range(invoked)

\* the value the store holds for a declared option, else its default
ResolvedOption(i, j) ==
  LET fid == ALL_FEATURES[i].id
      key == ALL_FEATURES[i].options[j].key
  IN IF fid \in DOMAIN syncOptions /\ key \in DOMAIN syncOptions[fid]
     THEN syncOptions[fid][key]
     ELSE ALL_FEATURES[i].options[j].defaultValue

Resolves(settings, i) ==
  \A j \in 1..Len(ALL_FEATURES[i].options) :
    /\ ALL_FEATURES[i].options[j].key \in DOMAIN settings
    /\ settings[ALL_FEATURES[i].options[j].key] = ResolvedOption(i, j)

\* C10: the settings handed to a feature's init, and those returned by
\* getFeatureOptionValues, map every option key the feature declares to the
\* saved value for that feature and key if there is one, else to the
\* option's defaultValue.
C10_OptionsResolved ==
  /\ \A i \in Range(invoked) : Resolves(passed[i], i)
  /\ \A i \in FeatureIndexes :
       gotValues.featureId = ALL_FEATURES[i].id => Resolves(gotValues.values, i)

C10_Witness ==
  \E i \in Range(invoked) :
    /\ gotValues.featureId = ALL_FEATURES[i].id
    /\ ALL_FEATURES[i].id \in DOMAIN syncOptions
    /\ \E j, h \in 1..Len(ALL_FEATURES[i].options) :
         /\ ALL_FEATURES[i].options[j].key \in DOMAIN syncOptions[ALL_FEATURES[i].id]
         /\ passed[i][ALL_FEATURES[i].options[j].key]
              # ALL_FEATURES[i].options[j].defaultValue
         /\ ALL_FEATURES[i].options[h].key \notin DOMAIN syncOptions[ALL_FEATURES[i].id]

(***************************************************************************)
(* Properties of the content script's entry point (SpecUrl)                *)
(***************************************************************************)
\* the observer callback runs and finds location.href changed
UrlChangeSeen == urlRecords /\ ~urlRecords' /\ UrlDiffers(href, lastUrl)
\* the observer callback runs and finds location.href as last seen
UrlSameSeen == urlRecords /\ ~urlRecords' /\ ~UrlDiffers(href, lastUrl)

\* C11: the content script starts exactly one activation pass at startup;
\* an observer callback that finds location.href different from the last
\* seen URL records the new URL and schedules exactly one pass UrlChangeDelay
\* later; a callback that finds the URL unchanged schedules nothing; passes
\* start nowhere else, and none starts before its delay has passed.
C11_PassPerUrlChange ==
  /\ [](passes + Len(timeouts) = (IF mainRan THEN 1 ELSE 0) + scheduled)
  /\ [][/\ UrlChangeSeen =>
             /\ lastUrl' = href
             /\ scheduled' = scheduled + 1
             /\ timeouts' = Append(timeouts, UrlChangeDelay)
             /\ passes' = passes
        /\ UrlSameSeen => UNCHANGED <<lastUrl, scheduled, timeouts, passes>>
        /\ ~mainRan /\ mainRan' => passes' = 1 /\ scheduled' = 0
        /\ mainRan /\ passes' # passes =>
             /\ passes' = passes + 1
             /\ timeouts # <<>> /\ Head(timeouts) = 0
             /\ timeouts' = Tail(timeouts)
        /\ scheduled' # scheduled => UrlChangeSeen]_vars

\* two URL changes were seen and both scheduled passes have started, after
\* a mutation with an unchanged URL
C11_Witness ==
  /\ mainRan /\ scheduled = 2 /\ timeouts = <<>> /\ passes = 3
  /\ muts > scheduled

(***************************************************************************)
(* Properties of the file-downloads cache (SpecCache)                      *)
(***************************************************************************)
\* the slot the last read looked at
ReadSlot == store[lastRead.kind]
ProofRead == lastRead.kind \in {"file", "folder"}
\* the entry is one the read accepts at all: file metadata needs a sha
Usable(e) == lastRead.kind = "file" => e.sha # Null
\* the stored proof is not older than the supplied one
NotOlder(stored, supplied) == ~DateGreater(supplied, stored)

\* C12 as stated: a cache read with a freshness proof returns the stored
\* value if and only if an entry exists and either no proof is supplied and
\* the entry is younger than CACHE_DURATION, or the stored proof is not older
\* than the supplied proof.
C12_FreshnessRead ==
  ProofRead =>
    LET valid ==
          /\ ReadSlot # <<>>
          /\ \/ /\ lastRead.lastCommitTime = Null
                /\ WithinDuration(ReadSlot[1], now)
             \/ /\ lastRead.lastCommitTime # Null
                /\ ReadSlot[1].lastCommitTime # Null
                /\ NotOlder(ReadSlot[1].lastCommitTime,
                            lastRead.lastCommitTime)
    IN  /\ valid => lastRead.result = ReadSlot[1].data
        /\ ~valid => lastRead.result = Null

\* C12, amended: the read returns the stored value if and only if a usable
\* entry exists (file metadata: one with a sha) and either both a stored and
\* a supplied proof exist and the stored one is not older, or one of the two
\* proofs is missing and the entry is younger than CACHE_DURATION.
C12_FreshnessReadAmended ==
  ProofRead =>
    LET valid ==
          /\ ReadSlot # <<>>
          /\ Usable(ReadSlot[1])
          /\ \/ /\ lastRead.lastCommitTime # Null
                /\ ReadSlot[1].lastCommitTime # Null
                /\ NotOlder(ReadSlot[1].lastCommitTime,
                            lastRead.lastCommitTime)
             \/ /\ \/ lastRead.lastCommitTime = Null
                   \/ ReadSlot[1].lastCommitTime = Null
                /\ WithinDuration(ReadSlot[1], now)
    IN  /\ valid => lastRead.result = ReadSlot[1].data
        /\ ~valid => lastRead.result = Null

\* an entry written with a proof is read after CACHE_DURATION with the same
\* proof and its value comes back
C12_Witness ==
  /\ ProofRead
  /\ ReadSlot # <<>>
  /\ ~WithinDuration(ReadSlot[1], now)
  /\ lastRead.lastCommitTime # Null
  /\ lastRead.lastCommitTime = ReadSlot[1].lastCommitTime
  /\ ParseDate(lastRead.lastCommitTime) # NaN
  /\ lastRead.result = ReadSlot[1].data

\* C13: expiry is lazy: once CACHE_DURATION has passed since an entry was
\* written, a read without proof returns absent, and no cache read modifies
\* or deletes the stored entry.
C13_LazyExpiry ==
  /\ [](/\ lastRead.kind \in CacheKinds
        /\ lastRead.lastCommitTime = Null
        /\ ReadSlot # <<>>
        /\ ~WithinDuration(ReadSlot[1], now)
        => lastRead.result = Null)
  /\ [][lastRead'.kind \in CacheKinds => store' = store]_vars

\* an expired entry was read without proof and is still stored
C13_Witness ==
  /\ lastRead.kind \in CacheKinds
  /\ lastRead.lastCommitTime = Null
  /\ ReadSlot # <<>>
  /\ ReadSlot[1].sha # Null
  /\ ~WithinDuration(ReadSlot[1], now)
  /\ lastRead.result = Null

(***************************************************************************)
(* Properties of the request queue (SpecQueue)                             *)
(***************************************************************************)
IsPrefix(a, b) == Len(a) <= Len(b) /\ a = SubSeq(b, 1, Len(a))

\* C20: the request queue is single-concurrency and FIFO: at most one
\* queued request function is executing at any time, and the functions are
\* started in the order in which they were enqueued.
C20_SingleFifo ==
  /\ Cardinality({i \in 1..Len(runners) : runners[i].pc = "fn"}) <= 1
  /\ Len(runners) <= 1
  /\ IsPrefix(started, enqueued)

\* three requests were started, the third while it had waited behind the
\* second
C20_Witness ==
  /\ Len(started) = 3
  /\ started = enqueued
  /\ Len(runners) = 1 /\ runners[1].pc = "fn"
  /\ started[1] # started[2]

(***************************************************************************)
(* Properties of file-downloads row processing (SpecDl)                    *)
(***************************************************************************)
\* C14: with the durable store unavailable (a storage read or write
\* rejects) a cache read behaves as a miss and a cache write as a no-op:
\* getFileMetadata and fetchTreeData do not reject, a tree or a file's
\* metadata that the API delivered is still returned, and no rejection of
\* the store leaves addDownloadInfo.
C14_StoreUnavailableTolerated ==
  /\ [](storeMode # "up" =>
          /\ \A r \in Rows : rows[r].out # "rejected"
          /\ \A r \in Rows : rows[r].meta # "rejected"
          /\ \A k \in Refs : treeOut[k] # "rejected")
  /\ [][\A k \in Refs :
          fnpc[k] = "cacheTree" /\ fnpc'[k] = "none" =>
            treeOut'[k] = TreeOf(k)]_vars

\* C15: once a tree fetch has failed with 403 or 429, no GitHub API request
\* triggered by row processing is started, the requests already waiting in
\* the queue included, until RATE_LIMIT_RESET_DURATION has passed.
C15_NoRequestInCoolDown == lateStart = "none"

\* the fetch of a second ref that waited in the queue is not started inside
\* the cool-down
WaitingFetchNotInCoolDown == lateStart # "waited"

(***************************************************************************)
(* Properties of the font preview (SpecFont)                               *)
(***************************************************************************)
AllSettled == \A c \in 1..Len(blobCalls) : blobCalls[c].pc = "done"
\* the most recent call was made for the font page the window is at
OnFontPage ==
  /\ blobCalls # <<>>
  /\ IsFontPage(blobLoc)
  /\ blobCalls[Len(blobCalls)].page = blobLoc
\* a response of call c arrives in this step
Responds(c) ==
  /\ c \in 1..Len(blobCalls)
  /\ blobCalls[c].pc \in {"sha", "blob"}
  /\ blobCalls'[c].pc # blobCalls[c].pc

\* C16: for any interleaving of processBlobView calls and of their fetch
\* completions, a response that arrives for a superseded call changes
\* neither what is displayed nor what is tracked, and once all calls have
\* settled on a font file page exactly one font preview element is
\* attached, it belongs to the most recent font page, and
\* currentFontPreview refers to it.
C16_SupersededResponseIgnored ==
  /\ [](AllSettled /\ OnFontPage =>
          /\ Cardinality(attachedPreviews) = 1
          /\ \A e \in attachedPreviews : blobCalls[e[1]].page = blobLoc
          /\ currentFontPreview \in attachedPreviews)
  /\ [][\A c \in 1..MaxBlobCalls :
          Responds(c) /\ c < Len(blobCalls) =>
            UNCHANGED <<attachedPreviews, currentFontPreview, currentFont>>]_vars

\* the late response of a superseded call leaves the tracking variables
\* alone
LateResponseKeepsTracking ==
  [][\A c \in 1..MaxBlobCalls :
       Responds(c) /\ c < Len(blobCalls) =>
         UNCHANGED <<currentFontPreview, currentFont>>]_vars

\* a repeated call for the same page leaves its preview in the document
RepeatedCallKeepsPreview ==
  AllSettled /\ OnFontPage => attachedPreviews # {}

(***************************************************************************)
(* Properties of the options page and of the stores (SpecOptions)          *)
(***************************************************************************)
\* the string values held in storage.sync
SyncValues ==
  {syncExtra[key] : key \in SyncExtraKeys}
  \cup UNION {{syncOptions[fid][key] : key \in DOMAIN syncOptions[fid]} :
                fid \in DOMAIN syncOptions}

\* C17: the personal access token is stored only in local storage under the
\* key githubPat: no operation (saving or clearing the token, updating
\* feature settings or options, feature storage writes) writes the token to
\* sync storage, nor to another key of local storage.
C17_TokenOnlyLocal ==
  /\ SyncValues \cap Tokens = {}
  /\ syncExtra[PAT_STORAGE_KEY] = Null
  /\ localTheme \notin Tokens
  /\ localPat \in Tokens \cup {Null}

\* a token was saved from the page, and settings, options and feature
\* storage were written
C17_Witness ==
  /\ localPat \in Tokens \ {"ghp_token"}
  /\ patInput = PatMask
  /\ edits = MaxEdits
  /\ \/ syncSettings # EmptyRec
     \/ syncOptions # EmptyRec
     \/ syncExtra["gh-enh-suite:data"] # Null

\* C18: after any sequence of Save-token and Clear-token actions (Save with
\* an empty input and Save with the mask in the input included), the toggle
\* of every feature with requiresPAT is disabled and unchecked if and only
\* if no token is stored.
C18_TogglesFollowToken ==
  loaded =>
    \A i \in FeatureIndexes :
      ALL_FEATURES[i].requiresPAT =>
        ((toggles[ALL_FEATURES[i].id].disabled
          /\ ~toggles[ALL_FEATURES[i].id].checked)
         <=> localPat = Null)

(***************************************************************************)
(* Properties of page detection (SpecDetect)                               *)
(***************************************************************************)
\* the page kind the documentation gives to a path
DocumentedPageType(pieces) ==
  LET parts == FilterBoolean(pieces) IN
    IF StartsWithNotifications(pieces) THEN "notifications"
    ELSE IF parts = <<>> \/ parts[1] \in ReservedNames THEN "unknown"
    ELSE IF Len(parts) = 1 THEN "profile"
    ELSE IF Len(parts) = 2 THEN "repo"
    ELSE IF parts[3] = "issues" /\ Len(parts) = 4 THEN "issue"
    ELSE IF parts[3] = "issues" /\ Len(parts) = 3 THEN "issue-list"
    ELSE IF parts[3] = "pull" /\ Len(parts) = 4 THEN "pull"
    ELSE IF parts[3] = "pulls" /\ Len(parts) = 3 THEN "pull-list"
    ELSE IF parts[3] \in {"blob", "tree"} THEN "code"
    ELSE "unknown"

\* C19: detectPageType returns the documented page kind of the URL path:
\* notifications, profile, repo, issue, issue-list, pull, pull-list, code as
\* documented, and unknown for every other page (/settings/profile,
\* /orgs/x/people).
C19_DocumentedPageType ==
  detected # "none" => detected = DocumentedPageType(pathname)

\* a two-piece path under a reserved name is not taken for a repository
ReservedNotRepo ==
  /\ detected # "none"
  /\ Len(pathname) = 2
  /\ pathname[1] \in ReservedNames
  /\ pathname[2] # ""
  => detected = "unknown"

TimedNext ==
  \/ \E k \in Refs : TimedQueueRequest(k)
  \/ \E i \in 1..MaxEnqueues : TimedFnSettles(i)
  \/ \E i \in 1..MaxEnqueues : TimedDelayEnds(i)
  \/ \E d \in DelaySteps : TimePasses(d)

TimedSpecInit ==
  TimedInit /\ QueueInit /\ WatchIdle /\ BootIdle /\ UrlIdle /\ CacheIdle
  /\ DlIdle /\ FontIdle /\ OptionsIdle /\ DetectIdle /\ InfoIdle
  /\ LimitIdle /\ LinkerIdle /\ UpdateIdle /\ LiveIdle

SpecTimed == TimedSpecInit /\ [][TimedNext]_vars

\* C21: a queued request function never starts less than REQUEST_DELAY
\* after the previous queued request function completed, whatever the
\* timing of the queueRequest calls.
C21_DelayBetweenRequests ==
  \A i \in 1..Len(startGaps) : startGaps[i] >= REQUEST_DELAY

\* the part of C21 the loop does keep: a request that was waiting when the
\* previous function completed starts REQUEST_DELAY later or more
WaitingRequestDelayed ==
  [][\A i \in 1..MaxEnqueues :
       TimedDelayEnds(i) /\ Len(startGaps') > Len(startGaps)
         => startGaps'[Len(startGaps')] >= REQUEST_DELAY]_vars

\* the number of fetches of ref k that wait in requestQueue or whose
\* function is executing
OutstandingFetches(k) ==
  Cardinality({i \in 1..Len(requestQueue) : requestQueue[i] = k})
  + Cardinality({i \in 1..Len(runners) :
                   runners[i].pc = "fn" /\ runners[i].req = k})

\* the rows whose fetchTreeData call awaits the fetch promise of ref k
AwaitingTree(k) == {r \in Rows : rows[r].pc = "awaitTree" /\ rows[r].ref = k}

\* C22: for a given ref at most one tree fetch is queued or executing at any
\* time, and every fetchTreeData caller that finds the cache empty while that
\* fetch is outstanding receives that fetch's result instead of issuing its
\* own request.
C22_TreeFetchDeduplicated ==
  /\ [](\A k \in Refs :
         /\ OutstandingFetches(k) <= 1
         /\ OutstandingFetches(k) = 1 <=> k \in inFlightTreeFetches)
  /\ [][\A r \in Rows :
          rows[r].pc = "treeRead" /\ rows'[r].pc = "awaitTree"
          /\ OutstandingFetches(rows[r].ref) = 1
            => /\ enqueued' = enqueued
               /\ r \in AwaitingTree(rows[r].ref)']_vars
  /\ [][\A k \in Refs :
          OutstandingFetches(k) = 1 /\ OutstandingFetches(k)' = 0
            => \A r \in AwaitingTree(k) :
                 /\ treeOut'[k] # "pending"
                 /\ rows'[r].pc = IF treeOut'[k] # Null THEN "write" ELSE "done"
                 /\ treeOut'[k] = Null => rows'[r].meta = Null]_vars

\* two rows of one ref await one fetch: the second one joined it
C22_Witness ==
  \E k \in Refs :
    /\ Cardinality(AwaitingTree(k)) >= 2
    /\ OutstandingFetches(k) = 1
    /\ Len(enqueued) = 1

InfoNext ==
  \/ \E el \in Rows, extracted \in BOOLEAN : InfoStarts(el, extracted)
  \/ \E c \in 1..MaxInfoCalls, gotData \in BOOLEAN, hasContent \in BOOLEAN :
       InfoSettles(c, gotData, hasContent)
  \/ \E el \in Rows : HostRerenders(el)

InfoSpecInit ==
  InfoInit /\ WatchIdle /\ BootIdle /\ UrlIdle /\ CacheIdle /\ QueueIdle
  /\ DlIdle /\ FontIdle /\ OptionsIdle /\ DetectIdle /\ TimedIdle
  /\ LimitIdle /\ LinkerIdle /\ UpdateIdle /\ LiveIdle

SpecInfo == InfoSpecInit /\ [][InfoNext]_vars

\* C23: under any interleaving of addDownloadInfo calls on an element, at
\* most one download-info container is ever inserted into the element.
C23_OneContainerPerElement ==
  \A el \in Rows : inserted[el] <= 1 /\ containers[el] <= 1

\* two calls on one element overlapped or followed each other, and the
\* element got its container
C23_Witness ==
  \E el \in Rows :
    /\ inserted[el] = 1
    /\ Cardinality({c \in 1..Len(infoCalls) : infoCalls[c].el = el}) >= 2

LimitNext ==
  \/ LimitInitCalled
  \/ \E c \in 1..MaxLimitInits, has \in BOOLEAN : LimitHasToken(c, has)
  \/ \E c \in 1..MaxLimitInits, got \in BOOLEAN : LimitArrives(c, got)

LimitSpecInit ==
  LimitInit /\ WatchIdle /\ BootIdle /\ UrlIdle /\ CacheIdle /\ QueueIdle
  /\ DlIdle /\ FontIdle /\ OptionsIdle /\ DetectIdle /\ TimedIdle
  /\ InfoIdle /\ LinkerIdle /\ UpdateIdle /\ LiveIdle

SpecLimit == LimitSpecInit /\ [][LimitNext]_vars

\* C24: at any time the document contains at most one rate-limit indicator
\* element, after any number of activation passes, overlapping ones included.
C24_OneIndicator == indicators <= 1

LinkerNext ==
  \/ PaneReady
  \/ \E text \in SymbolTexts : SymbolChanges(text)
  \/ ProcessSymbolChange
  \/ RetryFires
  \/ \E c \in 1..(MaxSymbolChanges + 1), gotUrl \in BOOLEAN :
       FetcherSettles(c, gotUrl)

LinkerSpecInit ==
  LinkerInit /\ WatchIdle /\ BootIdle /\ UrlIdle /\ CacheIdle /\ QueueIdle
  /\ DlIdle /\ FontIdle /\ OptionsIdle /\ DetectIdle /\ TimedIdle
  /\ InfoIdle /\ LimitIdle /\ UpdateIdle /\ LiveIdle

SpecLinker == LinkerSpecInit /\ [][LinkerNext]_vars

\* C25: a GitHub link fetched for module M is inserted into the symbol pane
\* only if the pane still shows M when the fetch completes, and the pane
\* never contains more than one GitHub link.
C25_GithubLinkOfShownModule ==
  /\ [](Len(githubLinks) <= 1)
  /\ [][githubLinks' # githubLinks /\ githubLinks' # <<>>
          => \E c \in 1..Len(linkCalls) :
               /\ Len(linkCalls') < Len(linkCalls)
               /\ githubLinks' = <<linkCalls[c].mod>>
               /\ ExtractModuleName(shown) = linkCalls[c].mod
               /\ shown' = shown]_vars

\* a fetch that was started for one text completed while the pane showed
\* the same module again after a change, and its link was inserted
C25_Witness ==
  /\ githubLinks # <<>>
  /\ symbolChanges >= 1
  /\ ExtractModuleName(shown) = githubLinks[1]

\* nothing is pending: no timer, no fetch
LinkerSettled ==
  /\ observing
  /\ linkCalls = <<>>
  /\ retryTimers = 0
  /\ ~processingTimer

\* the links a finished addLinkToSymbolPane leaves for the text shown: the
\* registry link and possibly the GitHub link of its module, none for a
\* symbol that is no module
LinksOfShown ==
  /\ \A i \in 1..Len(registryLinks) :
       IsModuleSymbol(shown) /\ registryLinks[i] = ExtractModuleName(shown)
  /\ \A i \in 1..Len(githubLinks) :
       IsModuleSymbol(shown) /\ githubLinks[i] = ExtractModuleName(shown)
  /\ IsModuleSymbol(shown) => Len(registryLinks) = 1

\* C28: if the symbol shown changes while links for an earlier symbol are
\* being added, no change is dropped: once all pending timers and fetches
\* have settled, the links in the pane are those of the symbol shown and no
\* link of an earlier symbol remains.
C28_NoChangeDropped == LinkerSettled => LinksOfShown

RepassNext ==
  \/ \E w \in Watches, sa \in SelectorChoices :
       \E t \in ProcessorChoices(sa) : FeatureInitInPass(w, sa, t)
  \/ \E n \in Nodes, p \in {Body} \cup Nodes : InsertNode(n, p)
  \/ \E n \in Nodes : RemoveNode(n)
  \/ \E w \in Watches : MutationCallback(w)

RepassSpecInit ==
  WatchIdle /\ BootIdle /\ UrlIdle /\ CacheIdle /\ QueueIdle /\ DlIdle
  /\ FontIdle /\ OptionsIdle /\ DetectIdle /\ RestIdle

SpecRepass == RepassSpecInit /\ [][RepassNext]_vars

\* the record of the insertion of node n alone
InsertionOf(n) == <<[addedNodes |-> <<n>>]>>

C29_SaveWithMaskKeepsToken ==
  [][SaveTokenClick /\ localPat # Null /\ Trim(patInput) = PatMask
       => localPat' = localPat]_vars

UpdateNext ==
  \/ \E id \in UpdatedFeatures, enabled \in BOOLEAN :
       UpdateFeatureEnabled(id, enabled)
  \/ \E pr \in UpdatedOptions : \E value \in OptionValues(pr[2]) :
       UpdateFeatureOption(pr[1], pr[2], value)
  \/ \E c \in 1..MaxUpdates : UpdateWritten(c)

UpdateSpecInit ==
  UpdateInit /\ WatchIdle /\ UrlIdle /\ CacheIdle /\ QueueIdle /\ DlIdle
  /\ FontIdle /\ OptionsIdle /\ DetectIdle /\ TimedIdle /\ InfoIdle
  /\ LimitIdle /\ LinkerIdle /\ LiveIdle

SpecUpdate == UpdateSpecInit /\ [][UpdateNext]_vars

\* the entry a call addresses
Addressed(c) == <<updates[c].kind, updates[c].id, updates[c].key>>

\* the value call c wrote is in the store
Stored(c) ==
  IF updates[c].kind = "enabled"
    THEN /\ updates[c].id \in DOMAIN syncSettings
         /\ syncSettings[updates[c].id] = updates[c].value
    ELSE /\ updates[c].id \in DOMAIN syncOptions
         /\ updates[c].key \in DOMAIN syncOptions[updates[c].id]
         /\ syncOptions[updates[c].id][updates[c].key] = updates[c].value

\* the entries no call addresses are as they were before the calls
OthersUnchanged ==
  /\ \A f \in FeatureIds :
       (\A c \in 1..Len(updates) : Addressed(c) # <<"enabled", f, "">>)
         => /\ f \in DOMAIN syncSettings <=> f \in DOMAIN storeBefore[1]
            /\ f \in DOMAIN syncSettings
                 => syncSettings[f] = storeBefore[1][f]
  /\ \A pr \in DeclaredPairs :
       (\A c \in 1..Len(updates) : Addressed(c) # <<"option", pr[1], pr[2]>>)
         => LET has(m) == pr[1] \in DOMAIN m /\ pr[2] \in DOMAIN m[pr[1]] IN
            /\ has(syncOptions) <=> has(storeBefore[2])
            /\ has(syncOptions)
                 => syncOptions[pr[1]][pr[2]] = storeBefore[2][pr[1]][pr[2]]

\* C30: after any interleaving of two updates that address different
\* features (or different option keys) has completed, both written values
\* are in the store and every other entry is unchanged (no lost update).
C30_NoLostUpdate ==
  (/\ Len(updates) = 2
   /\ \A c \in 1..2 : updates[c].pc = "done"
   /\ Addressed(1) # Addressed(2))
  => Stored(1) /\ Stored(2) /\ OthersUnchanged

\* the part of C30 that holds: an update that runs alone changes only the
\* addressed entry
SingleUpdateChangesOneEntry ==
  (Len(updates) = 1 /\ updates[1].pc = "done") => Stored(1) /\ OthersUnchanged

LiveNext ==
  \/ \E k \in Refs : LiveQueueRequest(k)
  \/ \E i \in 1..MaxEnqueues, outcome \in Outcomes : LiveFnSettles(i, outcome)
  \/ \E i \in 1..MaxEnqueues : LiveDelayEnds(i)

LiveSpecInit ==
  LiveInit /\ QueueInit /\ WatchIdle /\ BootIdle /\ UrlIdle /\ CacheIdle
  /\ DlIdle /\ FontIdle /\ OptionsIdle /\ DetectIdle /\ TimedIdle
  /\ InfoIdle /\ LimitIdle /\ LinkerIdle /\ UpdateIdle

\* every request function settles and every timeout fires
SpecLive ==
  /\ LiveSpecInit
  /\ [][LiveNext]_vars
  /\ WF_vars(\E i \in 1..MaxEnqueues, outcome \in Outcomes :
               LiveFnSettles(i, outcome))
  /\ WF_vars(\E i \in 1..MaxEnqueues : LiveDelayEnds(i))

\* C26: every request passed to queueRequest is eventually started and its
\* promise settles with the outcome of its function, provided every request
\* function settles; a rejecting request does not halt the queue, and the
\* queue is never non-empty while no processQueue loop is running or about
\* to resume.
C26_EveryRequestServed ==
  /\ [](requestQueue # <<>> => isProcessingQueue /\ runners # <<>>)
  /\ [](\A n \in 1..Len(promises) :
          promises[n] # "pending"
            => n <= Len(fnOutcome) /\ promises[n] = fnOutcome[n])
  /\ \A n \in 1..MaxEnqueues :
       (Len(promises) >= n)
         ~> (Len(started) >= n /\ promises[n] # "pending")

\* a request was rejected and a request queued behind it was served
C26_Witness ==
  \E n \in 1..Len(promises) :
    /\ n > 1
    /\ promises[n - 1] = "rejected"
    /\ promises[n] = "fulfilled"
    /\ Len(enqueued) > n

====
